---- MODULE Spec2Model ----
(***************************************************************************)
(* Market-data service: the WebSocketManager registry and broadcaster      *)
(* (app/core/websocket_manager.py), the endpoint coroutines that drive it  *)
(* (app/api/v1/websocket.py), and the collector's polls with the           *)
(* consolidation they trigger (app/services/data_collector.py) on the      *)
(* Redis store (app/services/redis_service.py).                            *)
(*                                                                         *)
(* Scheduling is asyncio's: a coroutine runs without interruption from the *)
(* point where one await resumes to the point where it reaches the next    *)
(* await on I/O (accept, send_text, receive_text).  Every action below is  *)
(* one such segment: it starts with the outcome of the pending await and   *)
(* carries the coroutine to its next await.  disconnect() contains no      *)
(* await, so `await self.disconnect(ws)` is part of the calling segment.   *)
(***************************************************************************)
EXTENDS Integers, Sequences, FiniteSets, TLC

\* ---------------------------------------------------------------- bounds
\* websocket objects that ever reach the service
Conns == {"c1", "c2"}
\* symbols a client may name; the two first of settings.default_symbols
Symbols == {"BTC/USDT", "ETH/USDT"}
default_symbols == <<"BTC/USDT", "ETH/USDT">>
\* inbound client messages handled in one run, over all connections
MaxMsgs == 1
\* broadcast calls in one run
MaxBcasts == 1
\* the exchanges that can be reached, in the order of exchange_configs
Exchanges == <<"binance", "kraken">>
\* the symbols of settings.default_symbols a cycle polls
PolledSymbols == {"BTC/USDT"}
\* collection cycles in one run that fills the history
HistoryCycles == 101
\* seconds a slow await lets pass at a time
TickSeconds == 5

None == "None"
\* a symbol that is not hashable: a non-empty JSON array or object
Unhashable == "['BTC/USDT']"

\* ----------------------------------------------------------------- state
VARIABLES
  active_connections,    \* WebSocketManager.active_connections: a list
  symbol_subscriptions,  \* dict symbol -> set of websockets
  connection_metadata,   \* dict websocket -> [subscriptions, message_count]
  sock,                  \* transport state of each websocket
  pc,                    \* the await each endpoint coroutine is suspended in
  pend,                  \* the message of a pending send_personal_message
  todo,                  \* symbols the endpoint still auto-subscribes to
  nrecv,                 \* inbound messages handled so far
  bc,                    \* the broadcast call in progress, or the last one
  nbcast,                \* broadcast calls made so far
  exchange_data,         \* Redis keys exchange:{exchange}:{symbol}
  price,                 \* Redis keys price:{symbol}
  price_history,         \* Redis lists price_history:{symbol}
  published,             \* what was published on the Redis channels, in order
  task,                  \* the poll coroutines of the collector's cycle
  age,                   \* seconds since the SET of each Redis key that expires
  clock,                 \* readings of datetime.now() by the consolidator
  ncycle,                \* iterations of _collect_prices_loop so far
  exchanges,             \* DataCollector.exchanges: the names, in dict order
  running,               \* DataCollector.running
  loops,                 \* DataCollector.tasks: where each loop task stands
  lifespan,              \* where lifespan() stands in start() and stop()
  market_task,           \* the poll coroutines of the market data cycle
  market_data,           \* Redis keys market:{exchange}:{symbol}
  closed,                \* the exchanges close() was called on, and how it ended
  reachable,             \* the exchanges whose load_markets() answers
  response               \* the last request to GET /price-history and its answer

manager_vars == <<active_connections, symbol_subscriptions, connection_metadata,
                  sock, pc, pend, todo, nrecv, bc, nbcast>>

service_vars == <<exchanges, running, loops, lifespan, market_task,
                  market_data, closed, reachable>>

collector_vars == <<exchange_data, price, price_history, published, task,
                    age, clock, ncycle, service_vars>>

vars == <<manager_vars, collector_vars, response>>

\* ------------------------------------------------------------- sequences
Range(q) == {q[i] : i \in 1..Len(q)}

Occurrences(q, x) == Cardinality({i \in 1..Len(q) : q[i] = x})

\* list.remove(x): drops the first occurrence
ListRemove(q, x) ==
  IF x \notin Range(q) THEN q
  ELSE LET k == CHOOSE i \in 1..Len(q) : q[i] = x /\ \A j \in 1..(i - 1) : q[j] # x
       IN  SubSeq(q, 1, k - 1) \o SubSeq(q, k + 1, Len(q))

\* ------------------------------------------------------------- messages
Msg(type, symbol, data, origin) ==
  [type |-> type, symbol |-> symbol, data |-> data, origin |-> origin]

NoMsg == Msg(None, None, None, 0)

\* what json.loads(data) can give handle_message
Inbound ==
  {[type |-> None, symbol |-> None, json |-> "invalid"],
   [type |-> None, symbol |-> None, json |-> "non_object"]}
  \cup {[type |-> t, symbol |-> s, json |-> "object"] :
          t \in {"subscribe", "unsubscribe"}, s \in Symbols \cup {None, Unhashable}}
  \cup {[type |-> t, symbol |-> None, json |-> "object"] :
          t \in {"ping", "get_subscriptions", "unknown"}}

\* -------------------------------------------------------------- registry
\* the three fields of the manager as one value, so that the calls of one
\* segment compose
Registry ==
  [active_connections |-> active_connections,
   symbol_subscriptions |-> symbol_subscriptions,
   connection_metadata |-> connection_metadata]

SetRegistry(r) ==
  /\ active_connections' = r.active_connections
  /\ symbol_subscriptions' = r.symbol_subscriptions
  /\ connection_metadata' = r.connection_metadata

\* a connect that lists the websocket and stores no metadata for it
register_list_only(r, websocket) ==
  [r EXCEPT !.active_connections = Append(@, websocket)]

\* connect, after accept() returned: lines 25-32
register(r, websocket) ==
  [r EXCEPT !.active_connections = Append(@, websocket),
            !.connection_metadata =
               [c \in DOMAIN @ \cup {websocket} |->
                  IF c = websocket
                  THEN [subscriptions |-> {}, message_count |-> 0]
                  ELSE @[c]]]

\* the symbol_subscriptions dict after ws is discarded from the sets of `symbols`
Discarded(ss, websocket, symbols) ==
  LET touched == symbols \cap DOMAIN ss
      kept == {s \in DOMAIN ss : ~(s \in touched /\ ss[s] \ {websocket} = {})}
  IN  [s \in kept |-> IF s \in touched THEN ss[s] \ {websocket} ELSE ss[s]]

\* a disconnect that searches every subscriber set, whatever the metadata says
disconnect_scanning(r, websocket) ==
  [active_connections |-> ListRemove(r.active_connections, websocket),
   symbol_subscriptions |->
      Discarded(r.symbol_subscriptions, websocket, DOMAIN r.symbol_subscriptions),
   connection_metadata |->
      [c \in DOMAIN r.connection_metadata \ {websocket} |->
         r.connection_metadata[c]]]

disconnect(r, websocket) ==
  LET subscriptions ==
        IF websocket \in DOMAIN r.connection_metadata
        THEN r.connection_metadata[websocket].subscriptions
        ELSE {}
  IN  [active_connections |-> ListRemove(r.active_connections, websocket),
       symbol_subscriptions |->
          Discarded(r.symbol_subscriptions, websocket, subscriptions),
       connection_metadata |->
          [c \in DOMAIN r.connection_metadata \ {websocket} |->
             r.connection_metadata[c]]]

\* lines 78-80 and 98-100: the count of a registered websocket goes up
count_message(r, websocket) ==
  IF websocket \in DOMAIN r.connection_metadata
  THEN [r EXCEPT !.connection_metadata[websocket].message_count = @ + 1]
  ELSE r

\* a send that leaves the websocket registered when send_text raises
send_personal_message_keeping(r, websocket, ok) ==
  IF ok THEN count_message(r, websocket) ELSE r

\* send_personal_message once send_text has returned (ok) or raised
send_personal_message(r, websocket, ok) ==
  IF ok THEN count_message(r, websocket) ELSE disconnect(r, websocket)

\* a subscribe that forgets the connection's own subscription set
subscribe_one_index(r, websocket, symbol) ==
  LET ss == r.symbol_subscriptions
  IN  [r EXCEPT !.symbol_subscriptions =
         [s \in DOMAIN ss \cup {symbol} |->
            IF s = symbol
            THEN (IF s \in DOMAIN ss THEN ss[s] ELSE {}) \cup {websocket}
            ELSE ss[s]]]

\* a subscribe that starts the symbol's set afresh on every call
subscribe_fresh_set(r, websocket, symbol) ==
  LET ss == r.symbol_subscriptions
      ss1 == [s \in DOMAIN ss \cup {symbol} |->
                IF s = symbol THEN {websocket} ELSE ss[s]]
  IN  IF websocket \in DOMAIN r.connection_metadata
      THEN [r EXCEPT !.symbol_subscriptions = ss1,
                     !.connection_metadata[websocket].subscriptions =
                        @ \cup {symbol}]
      ELSE [r EXCEPT !.symbol_subscriptions = ss1]

\* subscribe_to_symbol up to its await: lines 139-147
subscribe_to_symbol(r, websocket, symbol) ==
  LET ss == r.symbol_subscriptions
      ss1 == [s \in DOMAIN ss \cup {symbol} |->
                IF s = symbol
                THEN (IF s \in DOMAIN ss THEN ss[s] ELSE {}) \cup {websocket}
                ELSE ss[s]]
  IN  IF websocket \in DOMAIN r.connection_metadata
      THEN [r EXCEPT !.symbol_subscriptions = ss1,
                     !.connection_metadata[websocket].subscriptions =
                        @ \cup {symbol}]
      ELSE [r EXCEPT !.symbol_subscriptions = ss1]

\* unsubscribe_from_symbol up to its await: lines 169-178
unsubscribe_from_symbol(r, websocket, symbol) ==
  LET ss1 == Discarded(r.symbol_subscriptions, websocket, {symbol})
  IN  IF websocket \in DOMAIN r.connection_metadata
      THEN [r EXCEPT !.symbol_subscriptions = ss1,
                     !.connection_metadata[websocket].subscriptions =
                        @ \ {symbol}]
      ELSE [r EXCEPT !.symbol_subscriptions = ss1]

\* a handler that drops the connection whose payload it cannot read
handle_message_dropping(r, websocket, m) ==
  CASE m.json \in {"invalid", "non_object"} ->
         [reg |-> disconnect(r, websocket),
          out |-> Msg("error", None, "Invalid JSON format", 0)]
    [] m.type = "subscribe" /\ m.symbol \in Symbols ->
         [reg |-> subscribe_to_symbol(r, websocket, m.symbol),
          out |-> Msg("subscription_confirmed", m.symbol, None, 0)]
    [] m.type = "unsubscribe" /\ m.symbol \in Symbols ->
         [reg |-> unsubscribe_from_symbol(r, websocket, m.symbol),
          out |-> Msg("unsubscription_confirmed", m.symbol, None, 0)]
    [] m.type = "ping" ->
         [reg |-> r, out |-> Msg("pong", None, None, 0)]
    [] m.type = "get_subscriptions" ->
         [reg |-> r,
          out |-> Msg("subscriptions", None,
                      IF websocket \in DOMAIN r.connection_metadata
                      THEN r.connection_metadata[websocket].subscriptions
                      ELSE {}, 0)]
    [] OTHER ->
         [reg |-> r, out |-> Msg("error", None, "Unknown message type", 0)]

\* a handler that answers get_subscriptions with every subscribed symbol
handle_message_all_symbols(r, websocket, m) ==
  CASE m.json = "invalid" ->
         [reg |-> r, out |-> Msg("error", None, "Invalid JSON format", 0)]
    [] m.json = "non_object" ->
         [reg |-> r, out |-> Msg("error", None, "Internal server error", 0)]
    [] m.type = "subscribe" /\ m.symbol \in Symbols ->
         [reg |-> subscribe_to_symbol(r, websocket, m.symbol),
          out |-> Msg("subscription_confirmed", m.symbol, None, 0)]
    [] m.type = "unsubscribe" /\ m.symbol \in Symbols ->
         [reg |-> unsubscribe_from_symbol(r, websocket, m.symbol),
          out |-> Msg("unsubscription_confirmed", m.symbol, None, 0)]
    [] m.type = "ping" ->
         [reg |-> r, out |-> Msg("pong", None, None, 0)]
    [] m.type = "get_subscriptions" ->
         [reg |-> r,
          out |-> Msg("subscriptions", None, DOMAIN r.symbol_subscriptions, 0)]
    [] OTHER ->
         [reg |-> r, out |-> Msg("error", None, "Unknown message type", 0)]

\* handle_message up to its await: the registry after it and the message
\* it is about to send (NoMsg when it returns without sending)
handle_message(r, websocket, m) ==
  CASE m.json = "invalid" ->
         [reg |-> r, out |-> Msg("error", None, "Invalid JSON format", 0)]
    [] m.json = "non_object" ->
         [reg |-> r, out |-> Msg("error", None, "Internal server error", 0)]
    [] m.type = "subscribe" /\ m.symbol = None ->
         [reg |-> r,
          out |-> Msg("error", None, "Symbol required for subscription", 0)]
    [] m.type = "subscribe" /\ m.symbol = Unhashable ->
         [reg |-> r, out |-> NoMsg]
    [] m.type = "subscribe" /\ m.symbol \in Symbols ->
         [reg |-> subscribe_to_symbol(r, websocket, m.symbol),
          out |-> Msg("subscription_confirmed", m.symbol, None, 0)]
    [] m.type = "unsubscribe" /\ m.symbol = None ->
         [reg |-> r,
          out |-> Msg("error", None, "Symbol required for unsubscription", 0)]
    [] m.type = "unsubscribe" /\ m.symbol = Unhashable ->
         [reg |-> r, out |-> NoMsg]
    [] m.type = "unsubscribe" /\ m.symbol \in Symbols ->
         [reg |-> unsubscribe_from_symbol(r, websocket, m.symbol),
          out |-> Msg("unsubscription_confirmed", m.symbol, None, 0)]
    [] m.type = "ping" ->
         [reg |-> r, out |-> Msg("pong", None, None, 0)]
    [] m.type = "get_subscriptions" ->
         [reg |-> r,
          out |-> Msg("subscriptions", None,
                      IF websocket \in DOMAIN r.connection_metadata
                      THEN r.connection_metadata[websocket].subscriptions
                      ELSE {}, 0)]
    [] OTHER ->
         [reg |-> r, out |-> Msg("error", None, "Unknown message type", 0)]

\* sum(len(subs) for subs in symbol_subscriptions.values())
RECURSIVE SumSizes(_, _)
SumSizes(ss, keys) ==
  IF keys = {} THEN 0
  ELSE LET k == CHOOSE x \in keys : TRUE
       IN  Cardinality(ss[k]) + SumSizes(ss, keys \ {k})

\* the statistics of a manager that counts the connections that hold a
\* subscription, not the subscriptions
get_connection_stats_distinct(r) ==
  [total_connections |-> Len(r.active_connections),
   total_subscriptions |->
      Cardinality(UNION {r.symbol_subscriptions[s] :
                           s \in DOMAIN r.symbol_subscriptions}),
   subscribed_symbols |-> DOMAIN r.symbol_subscriptions,
   connections_per_symbol |->
      [s \in DOMAIN r.symbol_subscriptions |->
         Cardinality(r.symbol_subscriptions[s])]]

get_connection_stats(r) ==
  [total_connections |-> Len(r.active_connections),
   total_subscriptions |->
      SumSizes(r.symbol_subscriptions, DOMAIN r.symbol_subscriptions),
   subscribed_symbols |-> DOMAIN r.symbol_subscriptions,
   connections_per_symbol |->
      [s \in DOMAIN r.symbol_subscriptions |->
         Cardinality(r.symbol_subscriptions[s])]]

\* --------------------------------------------------------------- endpoints
\* the symbols an endpoint subscribes its websocket to after connect():
\* /market-data none, /price-feed the default symbols, /symbol/{symbol} one
EndpointPlans == {<<>>, default_symbols} \cup {<<s>> : s \in Symbols}

\* send_text succeeds on an accepted websocket the client has not closed
SendOk(c) == sock[c] = "connected"

\* the endpoint after connect() or a send_personal_message returned: the
\* next auto-subscription, else the receive loop
Resume(r, c) ==
  IF todo[c] # <<>>
  THEN /\ SetRegistry(subscribe_to_symbol(r, c, Head(todo[c])))
       /\ pend' = [pend EXCEPT ![c] =
                     Msg("subscription_confirmed", Head(todo[c]), None, 0)]
       /\ todo' = [todo EXCEPT ![c] = Tail(@)]
       /\ pc' = [pc EXCEPT ![c] = "send"]
  ELSE /\ SetRegistry(r)
       /\ pend' = [pend EXCEPT ![c] = NoMsg]
       /\ todo' = todo
       /\ pc' = [pc EXCEPT ![c] = "recv"]

\* connect(): accept() returns, the websocket is registered and the welcome
\* message is on its way; or accept() raises and connect() disconnects
Accept(c) ==
  /\ pc[c] = "accept"
  /\ IF sock[c] = "connecting"
     THEN /\ sock' = [sock EXCEPT ![c] = "connected"]
          /\ SetRegistry(register(Registry, c))
          /\ pend' = [pend EXCEPT ![c] =
                        Msg("connection_established", None, default_symbols, 0)]
          /\ pc' = [pc EXCEPT ![c] = "send"]
          /\ todo' = todo
     ELSE /\ sock' = sock
          /\ Resume(disconnect(Registry, c), c)
  /\ UNCHANGED <<nrecv, bc, nbcast, collector_vars, response>>

\* the send_text of a send_personal_message returns or raises
SendDone(c) ==
  /\ pc[c] = "send"
  /\ Resume(send_personal_message(Registry, c, SendOk(c)), c)
  /\ UNCHANGED <<sock, nrecv, bc, nbcast, collector_vars, response>>

\* receive_text returns a message: handle_message up to its send
Receive(c, m) ==
  /\ pc[c] = "recv"
  /\ sock[c] = "connected"
  /\ nrecv < MaxMsgs
  /\ nrecv' = nrecv + 1
  /\ LET h == handle_message(Registry, c, m)
     IN  /\ SetRegistry(h.reg)
         /\ pend' = [pend EXCEPT ![c] = h.out]
         /\ pc' = [pc EXCEPT ![c] = IF h.out = NoMsg THEN "recv" ELSE "send"]
  /\ UNCHANGED <<sock, todo, bc, nbcast, collector_vars, response>>

\* receive_text raises (WebSocketDisconnect or another error): the endpoint
\* disconnects and returns
ReceiveFails(c) ==
  /\ pc[c] = "recv"
  /\ sock[c] # "connected"
  /\ SetRegistry(disconnect(Registry, c))
  /\ pc' = [pc EXCEPT ![c] = "done"]
  /\ UNCHANGED <<sock, pend, todo, nrecv, bc, nbcast, collector_vars, response>>

\* the client goes away
ClientClose(c) ==
  /\ sock[c] \in {"connecting", "connected"}
  /\ sock' = [sock EXCEPT ![c] = "closed"]
  /\ UNCHANGED <<active_connections, symbol_subscriptions, connection_metadata,
                 pc, pend, todo, nrecv, bc, nbcast, collector_vars, response>>

\* -------------------------------------------------------------- broadcasts
\* The broadcaster makes one broadcast call after the other.  Of the call in
\* progress bc holds the locals of the code (message, subscribers,
\* disconnected, the loop's websocket and, for the list, its index) and, to
\* state the claims, the websockets the call set out to reach (targets) and
\* how many copies send_text delivered to each (delivered).
IdleBroadcast ==
  [websocket |-> None,
   st |-> "idle",
   kind |-> None,
   message |-> NoMsg,
   targets |-> {},
   subscribers |-> {},
   index |-> 0,
   disconnected |-> <<>>,
   delivered |-> [c \in Conns |-> 0]]

\* lines 106-108 and 131-133: disconnect every websocket whose send raised
RECURSIVE CleanUp(_, _)
CleanUp(r, disconnected) ==
  IF disconnected = <<>> THEN r
  ELSE CleanUp(disconnect(r, Head(disconnected)), Tail(disconnected))

\* a broadcast that takes every active connection for a subscriber
EveryConnection(symbol) == Range(active_connections) \cup symbol_subscriptions[symbol]

\* line 115: the set a symbol broadcast iterates over
SubscriberSnapshot(symbol) == symbol_subscriptions[symbol]

\* broadcast_price_update -> broadcast_to_symbol_subscribers up to its first
\* send: the subscriber set is copied
BroadcastSymbolStart(symbol, data) ==
  /\ bc.st \in {"idle", "done"}
  /\ nbcast < MaxBcasts
  /\ nbcast' = nbcast + 1
  /\ LET message == Msg("price_update", symbol, data, nbcast + 1)
     IN  IF symbol \notin DOMAIN symbol_subscriptions
         THEN bc' = [IdleBroadcast EXCEPT !.st = "done", !.kind = "symbol",
                                          !.message = message]
         ELSE \E first \in SubscriberSnapshot(symbol) :
                bc' = [IdleBroadcast EXCEPT
                         !.st = "send", !.kind = "symbol",
                         !.message = message,
                         !.targets = symbol_subscriptions[symbol],
                         !.subscribers = SubscriberSnapshot(symbol) \ {first},
                         !.websocket = first]
  /\ UNCHANGED <<active_connections, symbol_subscriptions, connection_metadata,
                 sock, pc, pend, todo, nrecv, collector_vars, response>>

\* broadcast_to_all up to its first send: the loop walks the list itself
BroadcastAllStart ==
  /\ bc.st \in {"idle", "done"}
  /\ nbcast < MaxBcasts
  /\ nbcast' = nbcast + 1
  /\ LET message == Msg("broadcast", None, None, nbcast + 1)
     IN  IF active_connections = <<>>
         THEN bc' = [IdleBroadcast EXCEPT !.st = "done", !.kind = "all",
                                          !.message = message]
         ELSE bc' = [IdleBroadcast EXCEPT
                       !.st = "send", !.kind = "all",
                       !.message = message,
                       !.targets = Range(active_connections),
                       !.index = 1,
                       !.websocket = active_connections[1]]
  /\ UNCHANGED <<active_connections, symbol_subscriptions, connection_metadata,
                 sock, pc, pend, todo, nrecv, collector_vars, response>>

\* a loop over the subscriber set as it is now, not over the copy
HasNextLive ==
  IF bc.kind = "symbol"
  THEN /\ bc.message.symbol \in DOMAIN symbol_subscriptions
       /\ bc.subscribers \subseteq symbol_subscriptions[bc.message.symbol]
       /\ bc.subscribers # {}
  ELSE bc.index < Len(active_connections)

\* whether the loop of the broadcast has another websocket to send to: one
\* left in the copied set, or the list as it is now reaching past the index
HasNext ==
  IF bc.kind = "symbol" THEN bc.subscribers # {}
  ELSE bc.index < Len(active_connections)

\* the websockets the loop may take next: any of the copied set that is left
\* (a set has no order), or the element of the list at the index
NextTargets ==
  IF bc.kind = "symbol" THEN bc.subscribers
  ELSE {active_connections[bc.index + 1]}

\* the websockets the clean-up loop disconnects: those whose send raised
ToDisconnect(failed) == failed

\* one send_text of a broadcast returns or raises; the loop goes on to its
\* next send, or ends and the websockets that failed are disconnected
BroadcastSend ==
  /\ bc.st = "send"
  /\ LET ws == bc.websocket
         ok == SendOk(ws)
         failed == IF ok THEN bc.disconnected ELSE Append(bc.disconnected, ws)
         got == IF ok THEN [bc.delivered EXCEPT ![ws] = @ + 1] ELSE bc.delivered
         r == IF ok THEN count_message(Registry, ws) ELSE Registry
     IN  IF HasNext
         THEN /\ \E next \in NextTargets :
                   bc' = [bc EXCEPT !.disconnected = failed,
                                    !.delivered = got,
                                    !.subscribers = @ \ {next},
                                    !.index = @ + 1,
                                    !.websocket = next]
              /\ SetRegistry(r)
         ELSE /\ bc' = [bc EXCEPT !.st = "done", !.disconnected = failed,
                                  !.delivered = got, !.subscribers = {},
                                  !.index = 0, !.websocket = None]
              /\ SetRegistry(CleanUp(r, ToDisconnect(failed)))
  /\ UNCHANGED <<sock, pc, pend, todo, nrecv, nbcast, collector_vars, response>>

\* --------------------------------------------------- collector and store
\* a number that may be None
Num(x) == <<x>>
NoNum == <<>>

\* an object that may be None
Some(x) == <<x>>
Nothing == <<>>

\* what fetch_ticker can return: the spec's two quotes, and a ticker of an
\* exchange that reports no bid and no ask
Tickers ==
  {[last |-> Num(100), bid |-> Num(100), ask |-> Num(101), baseVolume |-> Num(1)],
   [last |-> Num(99), bid |-> Num(99), ask |-> Num(102), baseVolume |-> Num(2)],
   [last |-> Num(100), bid |-> NoNum, ask |-> NoNum, baseVolume |-> Num(1)]}

\* one poll per initialised exchange and polled symbol: _collect_all_prices
Polls == {<<exchanges[i], s>> : i \in 1..Len(exchanges), s \in PolledSymbols}

\* lines 168-182; the 24h statistics and the exchange's own timestamp are
\* left out, and the time of the fetch is told by the cycle it belongs to
price_data(exchange_name, symbol, ticker) ==
  [price |-> ticker.last,
   symbol |-> symbol,
   bid |-> ticker.bid,
   ask |-> ticker.ask,
   exchange |-> exchange_name,
   volume |-> ticker.baseVolume,
   timestamp |-> ncycle]

\* the locals of _update_best_price as it starts: lines 258-261; best_ask
\* NoNum stands for float('inf')
IdleTask ==
  [pc |-> "idle",
   i |-> 0,
   price_data |-> Nothing,
   best_bid |-> 0,
   best_ask |-> NoNum,
   best_price_data |-> Nothing,
   exchange_prices |-> <<>>,
   best_price |-> Nothing]

RECURSIVE SumPrice(_)
SumPrice(exchange_prices) ==
  IF exchange_prices = <<>> THEN 0
  ELSE Head(exchange_prices).price[1] + SumPrice(Tail(exchange_prices))

RECURSIVE SumVolume(_)
SumVolume(exchange_prices) ==
  IF exchange_prices = <<>> THEN 0
  ELSE Head(exchange_prices).volume[1] + SumVolume(Tail(exchange_prices))

\* a consolidation that counts every initialised exchange, a missing quote
\* as zero
ConsolidatedPrice_every_exchange(symbol, exchange_prices, best_bid, best_ask, timestamp) ==
  [price |-> [num |-> SumPrice(exchange_prices), den |-> Len(Exchanges)],
   exchanges |-> Exchanges,
   symbol |-> symbol,
   timestamp |-> timestamp,
   best_bid |-> best_bid,
   best_ask |-> best_ask,
   spread |-> best_ask - best_bid,
   volume_24h |-> SumVolume(exchange_prices),
   exchange_count |-> Len(Exchanges)]

\* lines 280-293: the mean is kept as the fraction num/den, and the
\* timestamp is the reading of the clock
ConsolidatedPrice(symbol, exchange_prices, best_bid, best_ask, timestamp) ==
  [price |-> [num |-> SumPrice(exchange_prices), den |-> Len(exchange_prices)],
   exchanges |-> [j \in 1..Len(exchange_prices) |-> exchange_prices[j].exchange],
   symbol |-> symbol,
   timestamp |-> timestamp,
   best_bid |-> best_bid,
   best_ask |-> best_ask,
   spread |-> best_ask - best_bid,
   volume_24h |-> SumVolume(exchange_prices),
   exchange_count |-> Len(exchange_prices)]

\* a price dict as a caller of broadcast_price_update may pass it
SamplePrice(symbol) ==
  [price |-> [num |-> 100, den |-> 1],
   exchanges |-> <<"binance">>,
   symbol |-> symbol,
   timestamp |-> 0,
   best_bid |-> 100,
   best_ask |-> 101,
   spread |-> 1,
   volume_24h |-> 1,
   exchange_count |-> 1]

\* settings.price_cache_ttl: the ex= of set_exchange_data and set_price
price_cache_ttl == 10

\* settings.price_update_interval: the sleep between two cycles
price_update_interval == 5

\* SET key value EX ttl: the key's time to live starts anew
Renewed(a, key) == [q \in DOMAIN a \cup {key} |-> IF q = key THEN 0 ELSE a[q]]

\* a store whose keys never expire
Alive_forever(a, d) == DOMAIN a

\* the keys Redis still holds once d more seconds have passed
Alive(a, d) == {q \in DOMAIN a : a[q] + d < price_cache_ttl}

\* d seconds pass: Redis drops every key whose time to live is over, so that
\* a GET finds it absent
Elapse(d) ==
  /\ age' = [q \in Alive(age, d) |-> age[q] + d]
  /\ exchange_data' = [q \in {p \in DOMAIN exchange_data :
                                <<"exchange", p[1], p[2]>> \in Alive(age, d)} |->
                         exchange_data[q]]
  /\ price' = [s \in {p \in DOMAIN price : <<"price", p>> \in Alive(age, d)} |->
                 price[s]]

\* _collect_price_from_exchange: fetch_ticker returns; the quote is on its
\* way to Redis
FetchDone(k, ticker) ==
  /\ task[k].pc = "fetch"
  /\ task' = [task EXCEPT ![k] =
                [@ EXCEPT !.pc = "store",
                          !.price_data = Some(price_data(k[1], k[2], ticker))]]
  /\ UNCHANGED <<manager_vars, service_vars, exchange_data, price, price_history, published,
                 age, clock, ncycle, response>>

\* a failure that takes the sibling polls of the cycle down with it
FetchFails_aborting(k) ==
  /\ task[k].pc = "fetch"
  /\ task' = [q \in DOMAIN task |-> [task[q] EXCEPT !.pc = "done"]]
  /\ UNCHANGED <<manager_vars, service_vars, exchange_data, price,
                 price_history, published, age, clock, ncycle, response>>

\* fetch_ticker raises (timeout, exchange error): logged, the poll ends
FetchFails(k) ==
  /\ task[k].pc = "fetch"
  /\ task' = [task EXCEPT ![k] = [@ EXCEPT !.pc = "done"]]
  /\ UNCHANGED <<manager_vars, service_vars, exchange_data, price, price_history, published,
                 age, clock, ncycle, response>>

\* set_exchange_data: SET exchange:{exchange}:{symbol}; _update_best_price
\* starts and asks for the first exchange's quote
StoreDone(k) ==
  /\ task[k].pc = "store"
  /\ exchange_data' =
       [q \in DOMAIN exchange_data \cup {k} |->
          IF q = k THEN task[k].price_data[1] ELSE exchange_data[q]]
  /\ age' = Renewed(age, <<"exchange", k[1], k[2]>>)
  /\ task' = [task EXCEPT ![k] = [@ EXCEPT !.pc = "read", !.i = 1]]
  /\ UNCHANGED <<manager_vars, service_vars, price, price_history, published, clock, ncycle,
                 response>>

\* set_exchange_data: the SET raises (Redis does not answer); lines 164-165
\* log it and return, and _update_best_price starts all the same
StoreFails(k) ==
  /\ task[k].pc = "store"
  /\ task' = [task EXCEPT ![k] = [@ EXCEPT !.pc = "read", !.i = 1]]
  /\ UNCHANGED <<manager_vars, service_vars, exchange_data, price,
                 price_history, published, age, clock, ncycle, response>>

\* a loop that keeps the bid and the ask of the quote it read last
Track_last(t, quote) ==
  IF quote.bid = NoNum \/ quote.ask = NoNum
  THEN [t EXCEPT !.exchange_prices = Append(@, quote), !.pc = "raised"]
  ELSE [t EXCEPT
          !.exchange_prices = Append(@, quote),
          !.best_bid = quote.bid[1],
          !.best_ask = quote.ask,
          !.best_price_data = Some(quote)]

\* lines 267-276 for one quote read from Redis; raised stands for the
\* TypeError of comparing None with a number
Track(t, quote) ==
  IF quote.bid = NoNum \/ quote.ask = NoNum
  THEN [t EXCEPT !.exchange_prices = Append(@, quote), !.pc = "raised"]
  ELSE [t EXCEPT
          !.exchange_prices = Append(@, quote),
          !.best_bid = IF quote.bid[1] > @ THEN quote.bid[1] ELSE @,
          !.best_ask = IF @ = NoNum \/ quote.ask[1] < @[1] THEN quote.ask ELSE @,
          !.best_price_data =
             IF t.best_ask = NoNum \/ quote.ask[1] < t.best_ask[1]
             THEN Some(quote) ELSE @]

\* a consolidator that writes a price even when it has read no quote
Consolidate_unconditional(t, symbol) ==
  IF t.exchange_prices = <<>>
  THEN [t EXCEPT !.pc = "set",
                 !.best_price = Some(ConsolidatedPrice(symbol, <<>>, 0, 0,
                                                       clock + 1))]
  ELSE IF \/ t.best_price_data = Nothing
          \/ \E j \in 1..Len(t.exchange_prices) :
               \/ t.exchange_prices[j].price = NoNum
               \/ t.exchange_prices[j].volume = NoNum
       THEN [t EXCEPT !.pc = "done"]
       ELSE [t EXCEPT
               !.pc = "set",
               !.best_price = Some(ConsolidatedPrice(symbol, t.exchange_prices,
                                                     t.best_bid, t.best_ask[1],
                                                     clock + 1))]

\* lines 278-293, after the loop: the consolidated price, unless there is
\* none to make or a sum meets a None
Consolidate(t, symbol) ==
  IF t.best_price_data = Nothing THEN [t EXCEPT !.pc = "done"]
  ELSE IF \E j \in 1..Len(t.exchange_prices) :
            \/ t.exchange_prices[j].price = NoNum
            \/ t.exchange_prices[j].volume = NoNum
       THEN [t EXCEPT !.pc = "done"]
       ELSE [t EXCEPT
               !.pc = "set",
               !.best_price = Some(ConsolidatedPrice(symbol, t.exchange_prices,
                                                     t.best_bid, t.best_ask[1],
                                                     clock + 1))]

\* get_exchange_data returns for the exchange the loop is at
UpdateRead(k) ==
  /\ task[k].pc = "read"
  /\ LET key == <<exchanges[task[k].i], k[2]>>
         t1 == IF key \in DOMAIN exchange_data
               THEN Track(task[k], exchange_data[key])
               ELSE task[k]
         t2 == IF t1.pc = "raised" THEN [t1 EXCEPT !.pc = "done"]
               ELSE IF t1.i < Len(exchanges) THEN [t1 EXCEPT !.i = @ + 1]
               ELSE Consolidate(t1, k[2])
     IN  /\ task' = [task EXCEPT ![k] = t2]
         /\ clock' = IF t2.pc = "set" THEN clock + 1 ELSE clock
  /\ UNCHANGED <<manager_vars, service_vars, exchange_data, price, price_history, published,
                 age, ncycle, response>>

\* set_price: SET price:{symbol}
SetPrice(k) ==
  /\ task[k].pc = "set"
  /\ price' = [s \in DOMAIN price \cup {k[2]} |->
                 IF s = k[2] THEN task[k].best_price[1] ELSE price[s]]
  /\ age' = Renewed(age, <<"price", k[2]>>)
  /\ task' = [task EXCEPT ![k] = [@ EXCEPT !.pc = "lpush"]]
  /\ UNCHANGED <<manager_vars, service_vars, exchange_data, price_history, published,
                 clock, ncycle, response>>

\* a writer that puts its snapshot in the place of the newest one
PushHistory_overwrite(k) ==
  /\ task[k].pc = "lpush"
  /\ price_history' =
       [price_history EXCEPT ![k[2]] =
          <<task[k].best_price[1]>> \o (IF @ = <<>> THEN <<>> ELSE Tail(@))]
  /\ task' = [task EXCEPT ![k] = [@ EXCEPT !.pc = "ltrim"]]
  /\ UNCHANGED <<manager_vars, service_vars, exchange_data, price, published, age, clock,
                 ncycle, response>>

\* set_price: LPUSH price_history:{symbol}
PushHistory(k) ==
  /\ task[k].pc = "lpush"
  /\ price_history' =
       [price_history EXCEPT ![k[2]] = <<task[k].best_price[1]>> \o @]
  /\ task' = [task EXCEPT ![k] = [@ EXCEPT !.pc = "ltrim"]]
  /\ UNCHANGED <<manager_vars, service_vars, exchange_data, price, published, age, clock,
                 ncycle, response>>

\* set_price: LTRIM price_history:{symbol} 0 99
HistoryLimit == 100

TrimHistory(k) ==
  /\ task[k].pc = "ltrim"
  /\ price_history' =
       [price_history EXCEPT ![k[2]] =
          IF Len(@) > HistoryLimit THEN SubSeq(@, 1, HistoryLimit) ELSE @]
  /\ task' = [task EXCEPT ![k] = [@ EXCEPT !.pc = "publish_symbol"]]
  /\ UNCHANGED <<manager_vars, service_vars, exchange_data, price, published, age, clock,
                 ncycle, response>>

\* publish_price_update: PUBLISH price_updates:{symbol}
PublishSymbol(k) ==
  /\ task[k].pc = "publish_symbol"
  /\ published' = Append(published,
                         [symbol |-> k[2],
                          data |-> task[k].best_price[1],
                          channel |-> <<"price_updates", k[2]>>])
  /\ task' = [task EXCEPT ![k] = [@ EXCEPT !.pc = "publish_all"]]
  /\ UNCHANGED <<manager_vars, service_vars, exchange_data, price, price_history, age,
                 clock, ncycle, response>>

\* a publisher that leaves the catch-all channel out
PublishAll_skipped(k) ==
  /\ task[k].pc = "publish_all"
  /\ task' = [task EXCEPT ![k] = [@ EXCEPT !.pc = "done"]]
  /\ UNCHANGED <<manager_vars, service_vars, exchange_data, price,
                 price_history, published, age, clock, ncycle, response>>

\* publish_price_update: PUBLISH price_updates; _update_best_price and the
\* poll return
PublishAll(k) ==
  /\ task[k].pc = "publish_all"
  /\ published' = Append(published,
                         [symbol |-> k[2],
                          data |-> task[k].best_price[1],
                          channel |-> <<"price_updates">>])
  /\ task' = [task EXCEPT ![k] = [@ EXCEPT !.pc = "done"]]
  /\ UNCHANGED <<manager_vars, service_vars, exchange_data, price, price_history, age,
                 clock, ncycle, response>>

\* an await takes its time: TickSeconds pass while the polls are suspended
Tick ==
  /\ age # <<>>
  /\ Elapse(TickSeconds)
  /\ UNCHANGED <<manager_vars, service_vars, price_history, published, task, clock, ncycle,
                 response>>

\* _collect_prices_loop: gather has returned every poll of the cycle, the
\* sleep of price_update_interval seconds is over and _collect_all_prices
\* creates the polls of the next cycle
NewCycle(cycles) ==
  /\ \A k \in Polls : task[k].pc = "done"
  /\ ncycle < cycles
  /\ ncycle' = ncycle + 1
  /\ Elapse(price_update_interval)
  /\ task' = [k \in Polls |-> [IdleTask EXCEPT !.pc = "fetch"]]
  /\ UNCHANGED <<manager_vars, service_vars, price_history, published, clock,
                 response>>

\* ------------------------------------------------- the collector's life
\* the keys of exchange_configs, in the order of the dict: lines 62-93
exchange_configs == <<"binance", "coinbasepro", "kraken">>

\* the two tasks of DataCollector.tasks: lines 32-35
LoopNames == {"_collect_prices_loop", "_collect_market_data_loop"}

\* iterations of _collect_prices_loop in a run from start() to stop()
ServiceCycles == 1
\* iterations of _collect_prices_loop in a run of the loops
LoopCycles == 2

\* the sleep of _collect_prices_loop after a cycle that raised: line 132
prices_backoff == 5

\* an initialiser that takes an exchange for usable without asking it
load_markets_unchecked(exchange_name) == TRUE

\* lines 97-99: load_markets() returns for an exchange that can be reached
\* and raises for any other
load_markets(exchange_name) == exchange_name \in reachable

\* start(): a load_markets() of _initialize_exchanges returns or raises; after
\* the last one start() raises if no exchange is there, else it sets running
\* and creates the two loop tasks
LoadMarkets ==
  /\ lifespan.pc = "load_markets"
  /\ LET exchange_name == exchange_configs[lifespan.i]
         loaded == IF load_markets(exchange_name)
                   THEN Append(exchanges, exchange_name) ELSE exchanges
     IN  /\ exchanges' = loaded
         /\ IF lifespan.i < Len(exchange_configs)
            THEN /\ lifespan' = [lifespan EXCEPT !.i = @ + 1]
                 /\ UNCHANGED <<running, loops>>
            ELSE IF loaded = <<>>
            THEN /\ lifespan' = [pc |-> "raised", i |-> 0]
                 /\ UNCHANGED <<running, loops>>
            ELSE /\ lifespan' = [pc |-> "serving", i |-> 0]
                 /\ running' = TRUE
                 /\ loops' = [l \in LoopNames |-> "created"]
  /\ UNCHANGED <<manager_vars, exchange_data, price, price_history, published,
                 task, age, clock, ncycle, market_task, market_data, closed,
                 reachable, response>>

\* a loop task that is not waiting for the polls of a cycle: it has not run
\* yet, or it sleeps after a cycle or after the error of one
Between(l) == l \in DOMAIN loops /\ loops[l] \in {"created", "sleep", "backoff"}

\* settings.market_data_update_interval: the sleep between two cycles of
\* _collect_market_data_loop
market_data_update_interval == 30

\* the sleep of _collect_market_data_loop after a cycle that raised: line 145
market_data_backoff == 10

\* the seconds of the asyncio.sleep the loop l is suspended in at `at`:
\* lines 128 and 132, 141 and 145
SleepSeconds(l, at) ==
  CASE l = "_collect_prices_loop" /\ at = "sleep" -> price_update_interval
    [] l = "_collect_prices_loop" /\ at = "backoff" -> prices_backoff
    [] l = "_collect_market_data_loop" /\ at = "sleep" ->
         market_data_update_interval
    [] l = "_collect_market_data_loop" /\ at = "backoff" -> market_data_backoff
    [] OTHER -> 0

\* the seconds the loop slept before this iteration
Slept(l) == SleepSeconds(l, loops[l])

\* _collect_prices_loop: the task starts or its sleep is over, running is
\* set, and _collect_all_prices creates a poll for every exchange and symbol
\* and waits for them in gather.  stop() clears running and cancels the task
\* in one segment, so no iteration finds running cleared.
collect_all_prices(cycles) ==
  /\ Between("_collect_prices_loop")
  /\ running
  /\ ncycle < cycles
  /\ ncycle' = ncycle + 1
  /\ Elapse(Slept("_collect_prices_loop"))
  /\ task' = [k \in Polls |-> [IdleTask EXCEPT !.pc = "fetch"]]
  /\ loops' = [loops EXCEPT !["_collect_prices_loop"] = "gather"]
  /\ UNCHANGED <<manager_vars, price_history, published, clock, exchanges,
                 running, lifespan, market_task, market_data, closed, reachable,
                 response>>

\* _collect_market_data_loop: the same with _collect_all_market_data
collect_all_market_data ==
  /\ Between("_collect_market_data_loop")
  /\ running
  /\ market_task' = [k \in Polls |-> "fetch"]
  /\ loops' = [loops EXCEPT !["_collect_market_data_loop"] = "gather"]
  /\ UNCHANGED <<manager_vars, exchange_data, price, price_history, published,
                 task, age, clock, ncycle, exchanges, running, lifespan,
                 market_data, closed, reachable, response>>

\* a loop that gives up when a cycle raises
AfterError_giving_up(l) == "ended"

\* lines 130-132 and 143-145: the error of a cycle is logged and the loop
\* sleeps before it goes round again
AfterError(l) == "backoff"

\* the cycle of a loop raises before it has created a poll (the scheduling
\* fails): except Exception takes the loop to its backoff sleep
CycleRaises(l, cycles) ==
  /\ Between(l)
  /\ running
  /\ loops' = [loops EXCEPT ![l] = AfterError(l)]
  /\ IF l = "_collect_prices_loop"
     THEN /\ ncycle < cycles
          /\ ncycle' = ncycle + 1
          /\ Elapse(Slept(l))
     ELSE UNCHANGED <<ncycle, age, exchange_data, price>>
  /\ UNCHANGED <<manager_vars, price_history, published, task, clock,
                 exchanges, running, lifespan, market_task, market_data,
                 closed, reachable, response>>

\* a join that returns with the first poll that is over
PollsOver_first(l) ==
  IF l = "_collect_prices_loop"
  THEN \E k \in DOMAIN task : task[k].pc = "done"
  ELSE \E k \in DOMAIN market_task : market_task[k] = "done"

\* every poll the cycle of the loop created is over
PollsOver(l) ==
  IF l = "_collect_prices_loop"
  THEN \A k \in DOMAIN task : task[k].pc = "done"
  ELSE \A k \in DOMAIN market_task : market_task[k] = "done"

\* gather returns the polls of the cycle and the loop goes to sleep
CycleJoined(l) ==
  /\ l \in DOMAIN loops
  /\ loops[l] = "gather"
  /\ PollsOver(l)
  /\ loops' = [loops EXCEPT ![l] = "sleep"]
  /\ UNCHANGED <<manager_vars, exchange_data, price, price_history, published,
                 task, age, clock, ncycle, exchanges, running, lifespan,
                 market_task, market_data, closed, reachable, response>>

\* _collect_market_data_from_exchange: fetch_ticker returns and the poll
\* asks for the order book
MarketFetchDone(k) ==
  /\ market_task[k] = "fetch"
  /\ market_task' = [market_task EXCEPT ![k] = "order_book"]
  /\ UNCHANGED <<manager_vars, exchange_data, price, price_history, published,
                 task, age, clock, ncycle, exchanges, running, loops, lifespan,
                 market_data, closed, reachable, response>>

\* fetch_ticker raises: logged, the poll ends
MarketFetchFails(k) ==
  /\ market_task[k] = "fetch"
  /\ market_task' = [market_task EXCEPT ![k] = "done"]
  /\ UNCHANGED <<manager_vars, exchange_data, price, price_history, published,
                 task, age, clock, ncycle, exchanges, running, loops, lifespan,
                 market_data, closed, reachable, response>>

\* lines 216-221: fetch_order_book returns the top of the book, or it raises
\* and the bare except leaves the book empty; the CancelledError of a
\* cancelled poll is caught by that except as well.  The snapshot is on its
\* way to Redis; what it holds is left out.
OrderBookDone(k) ==
  /\ market_task[k] \in {"order_book", "order_book_cancelled"}
  /\ market_task' = [market_task EXCEPT ![k] = "store"]
  /\ UNCHANGED <<manager_vars, exchange_data, price, price_history, published,
                 task, age, clock, ncycle, exchanges, running, loops, lifespan,
                 market_data, closed, reachable, response>>

\* set_market_data: SET market:{exchange}:{symbol}; the poll returns
MarketStoreDone(k) ==
  /\ market_task[k] = "store"
  /\ market_data' = [q \in DOMAIN market_data \cup {k} |-> "market_data"]
  /\ market_task' = [market_task EXCEPT ![k] = "done"]
  /\ UNCHANGED <<manager_vars, exchange_data, price, price_history, published,
                 task, age, clock, ncycle, exchanges, running, loops, lifespan,
                 closed, reachable, response>>

\* task.cancel() on a loop task: a loop that waits in gather passes the
\* request on to the polls and ends after them, any other ends at its await
Cancelled(at) ==
  CASE at = "gather" -> "gather_cancelled"
    [] at \in {"created", "sleep", "backoff"} -> "cancelled"
    [] OTHER -> at

\* the cancel() gather passes to a poll that is not over: the await the
\* poll is suspended in will raise CancelledError
CancelPoll(at) ==
  CASE at = "done" -> "done"
    [] at = "order_book" -> "order_book_cancelled"
    [] OTHER -> "cancelled"

\* what stop() does once the loop tasks are over, or at once without any:
\* _close_exchanges calls the first close(), or has no exchange and returns
Closing == IF exchanges = <<>> THEN [pc |-> "stopped", i |-> 0]
           ELSE [pc |-> "close", i |-> 1]

\* the loop task waits in the gather of a cycle
InGather(l) == l \in DOMAIN loops /\ loops[l] = "gather"

\* lifespan() leaves its yield, or start() has raised: stop() clears
\* running, cancels the loop tasks and waits for them in gather
Shutdown ==
  /\ lifespan.pc \in {"serving", "raised"}
  /\ running' = FALSE
  /\ loops' = [l \in DOMAIN loops |-> Cancelled(loops[l])]
  /\ task' = IF InGather("_collect_prices_loop")
             THEN [k \in DOMAIN task |-> [task[k] EXCEPT !.pc = CancelPoll(@)]]
             ELSE task
  /\ market_task' =
       IF InGather("_collect_market_data_loop")
       THEN [k \in DOMAIN market_task |-> CancelPoll(market_task[k])]
       ELSE market_task
  /\ lifespan' = IF loops = <<>> THEN Closing ELSE [pc |-> "gather", i |-> 0]
  /\ UNCHANGED <<manager_vars, exchange_data, price, price_history, published,
                 age, clock, ncycle, exchanges, market_data, closed, reachable,
                 response>>

\* CancelledError is raised in a poll of the price cycle: no except Exception
\* catches it and the poll ends
PollUnwinds(k) ==
  /\ task[k].pc = "cancelled"
  /\ task' = [task EXCEPT ![k].pc = "done"]
  /\ UNCHANGED <<manager_vars, service_vars, exchange_data, price,
                 price_history, published, age, clock, ncycle, response>>

\* the same in a poll of the market data cycle outside its inner try
MarketPollUnwinds(k) ==
  /\ market_task[k] = "cancelled"
  /\ market_task' = [market_task EXCEPT ![k] = "done"]
  /\ UNCHANGED <<manager_vars, exchange_data, price, price_history, published,
                 task, age, clock, ncycle, exchanges, running, loops, lifespan,
                 market_data, closed, reachable, response>>

\* CancelledError is raised in a loop task: in its sleep, or out of gather
\* once every poll of the cycle is over
LoopUnwinds(l) ==
  /\ l \in DOMAIN loops
  /\ \/ loops[l] = "cancelled"
     \/ loops[l] = "gather_cancelled" /\ PollsOver(l)
  /\ loops' = [loops EXCEPT ![l] = "ended"]
  /\ UNCHANGED <<manager_vars, exchange_data, price, price_history, published,
                 task, age, clock, ncycle, exchanges, running, lifespan,
                 market_task, market_data, closed, reachable, response>>

\* a stop() that does not wait for the loop tasks
LoopsOver_unawaited == TRUE

\* line 51: gather(*self.tasks) returns when both loop tasks are over
LoopsOver == \A l \in DOMAIN loops : loops[l] = "ended"

\* stop(): the loop tasks are over; _close_exchanges starts
StopGathered ==
  /\ lifespan.pc = "gather"
  /\ LoopsOver
  /\ lifespan' = Closing
  /\ UNCHANGED <<manager_vars, exchange_data, price, price_history, published,
                 task, age, clock, ncycle, exchanges, running, loops,
                 market_task, market_data, closed, reachable, response>>

\* _close_exchanges: a close() returns or raises, which is logged; the loop
\* goes on to the next exchange, and after the last one stop() returns
CloseExchange(ok) ==
  /\ lifespan.pc = "close"
  /\ closed' = Append(closed, [ok |-> ok,
                               exchange |-> exchanges[lifespan.i]])
  /\ lifespan' = IF lifespan.i < Len(exchanges)
                 THEN [lifespan EXCEPT !.i = @ + 1]
                 ELSE [pc |-> "stopped", i |-> 0]
  /\ UNCHANGED <<manager_vars, exchange_data, price, price_history, published,
                 task, age, clock, ncycle, exchanges, running, loops,
                 market_task, market_data, reachable, response>>

\* ------------------------------------------------------ the REST endpoint
\* LRANGE key start stop as Redis computes it: the indices count from zero,
\* a negative one counts from the end of the list, and a range that reaches
\* past the end stops at the last element
lrange(list, start, stop) ==
  LET llen == Len(list)
      from == IF start < 0 THEN llen + start ELSE start
      to == IF stop < 0 THEN llen + stop ELSE stop
      first == IF from < 0 THEN 0 ELSE from
      last == IF to >= llen THEN llen - 1 ELSE to
  IN  IF first > to \/ first >= llen THEN <<>>
      ELSE SubSeq(list, first + 1, last + 1)

\* RedisService.get_price_history: LRANGE price_history:{symbol} 0 limit-1
get_price_history(list, limit) == lrange(list, 0, limit - 1)

\* no request to the endpoint has been answered
NoResponse == [symbol |-> None, limit |-> 0, history |-> <<>>, count |-> 0]

\* GET /price-history/{symbol}?limit=: a limit above 100 is cut to 100, the
\* list is read and the answer carries the entries and their number; the
\* limit of the request is kept with the answer
GetPriceHistory(symbol, limit) ==
  LET capped == IF limit > HistoryLimit THEN HistoryLimit ELSE limit
      found == get_price_history(price_history[symbol], capped)
  IN  /\ response' = [symbol |-> symbol, limit |-> limit, history |-> found,
                      count |-> Len(found)]
      /\ UNCHANGED <<manager_vars, collector_vars>>

\* ------------------------------------------------------------ the system
\* DataCollector.__init__, an empty store, and lifespan() suspended in the
\* first load_markets() of start()
Constructed ==
  /\ exchanges = <<>>
  /\ running = FALSE
  /\ loops = <<>>
  /\ lifespan = [pc |-> "load_markets", i |-> 1]
  /\ market_task = <<>>
  /\ market_data = <<>>
  /\ closed = <<>>
  /\ exchange_data = <<>>
  /\ price = <<>>
  /\ price_history = [s \in PolledSymbols |-> <<>>]
  /\ published = <<>>
  /\ task = <<>>
  /\ age = <<>>
  /\ clock = 0
  /\ ncycle = 0
  /\ response = NoResponse

Init ==
  /\ active_connections = <<>>
  /\ symbol_subscriptions = <<>>
  /\ connection_metadata = <<>>
  /\ sock = [c \in Conns |-> "connecting"]
  /\ pc = [c \in Conns |-> "accept"]
  /\ pend = [c \in Conns |-> NoMsg]
  /\ todo \in [Conns -> EndpointPlans]
  /\ nrecv = 0
  /\ bc = IdleBroadcast
  /\ nbcast = 0
  /\ Constructed
  /\ reachable = Range(Exchanges)

Next ==
  \/ \E c \in Conns : Accept(c)
  \/ \E c \in Conns : SendDone(c)
  \/ \E c \in Conns, m \in Inbound : Receive(c, m)
  \/ \E c \in Conns : ReceiveFails(c)
  \/ \E c \in Conns : ClientClose(c)
  \/ \E s \in Symbols : BroadcastSymbolStart(s, SamplePrice(s))
  \/ BroadcastAllStart
  \/ BroadcastSend

Spec == Init /\ [][Next]_vars

\* The pipeline from a poll to the subscribers: the service with one client
\* connected through /symbol/BTC/USDT, subscribed and waiting in its receive
\* loop (the other websocket is gone), at the moment _collect_all_prices has
\* created the polls of a cycle.
InitFanout ==
  /\ active_connections = <<"c1">>
  /\ symbol_subscriptions = [s \in PolledSymbols |-> {"c1"}]
  /\ connection_metadata =
       [c \in {"c1"} |-> [subscriptions |-> PolledSymbols, message_count |-> 2]]
  /\ sock = [c \in Conns |-> IF c = "c1" THEN "connected" ELSE "closed"]
  /\ pc = [c \in Conns |-> IF c = "c1" THEN "recv" ELSE "done"]
  /\ pend = [c \in Conns |-> NoMsg]
  /\ todo = [c \in Conns |-> <<>>]
  /\ nrecv = 0
  /\ bc = IdleBroadcast
  /\ nbcast = 0
  /\ exchanges = Exchanges
  /\ running = TRUE
  /\ loops = [l \in LoopNames |->
                IF l = "_collect_prices_loop" THEN "gather" ELSE "created"]
  /\ lifespan = [pc |-> "serving", i |-> 0]
  /\ market_task = <<>>
  /\ market_data = <<>>
  /\ closed = <<>>
  /\ reachable = Range(Exchanges)
  /\ exchange_data = <<>>
  /\ price = <<>>
  /\ price_history = [s \in PolledSymbols |-> <<>>]
  /\ published = <<>>
  /\ task = [k \in Polls |-> [IdleTask EXCEPT !.pc = "fetch"]]
  /\ age = <<>>
  /\ clock = 0
  /\ ncycle = 1
  /\ response = NoResponse

NextFanout ==
  \/ \E k \in Polls, ticker \in Tickers : FetchDone(k, ticker)
  \/ \E k \in Polls : FetchFails(k)
  \/ \E k \in Polls : StoreDone(k)
  \/ \E k \in Polls : UpdateRead(k)
  \/ \E k \in Polls : SetPrice(k)
  \/ \E k \in Polls : PushHistory(k)
  \/ \E k \in Polls : TrimHistory(k)
  \/ \E k \in Polls : PublishSymbol(k)
  \/ \E k \in Polls : PublishAll(k)
  \/ \E c \in Conns : SendDone(c)
  \/ \E c \in Conns, m \in Inbound : Receive(c, m)
  \/ \E c \in Conns : ReceiveFails(c)
  \/ \E c \in Conns : ClientClose(c)
  \/ \E s \in Symbols : BroadcastSymbolStart(s, SamplePrice(s))
  \/ BroadcastAllStart
  \/ BroadcastSend

SpecFanout == InitFanout /\ [][NextFanout]_vars

\* The polls of one cycle with time passing: every poll may succeed with any
\* ticker or fail, and the keys of the store expire.
NextCollector ==
  \/ \E k \in Polls, ticker \in Tickers : FetchDone(k, ticker)
  \/ \E k \in Polls : FetchFails(k)
  \/ \E k \in Polls : StoreDone(k)
  \/ \E k \in Polls : UpdateRead(k)
  \/ \E k \in Polls : SetPrice(k)
  \/ \E k \in Polls : PushHistory(k)
  \/ \E k \in Polls : TrimHistory(k)
  \/ \E k \in Polls : PublishSymbol(k)
  \/ \E k \in Polls : PublishAll(k)
  \/ Tick

SpecCollector == InitFanout /\ [][NextCollector]_vars

\* The collector over enough cycles to fill a history: the first exchange
\* answers every poll with the same ticker and the others are unreachable.
SteadyTicker ==
  [last |-> Num(100), bid |-> Num(100), ask |-> Num(101), baseVolume |-> Num(1)]

NextHistory ==
  \/ \E s \in PolledSymbols : FetchDone(<<Exchanges[1], s>>, SteadyTicker)
  \/ \E k \in Polls : k[1] # Exchanges[1] /\ FetchFails(k)
  \/ \E k \in Polls : StoreDone(k)
  \/ \E k \in Polls : UpdateRead(k)
  \/ \E k \in Polls : SetPrice(k)
  \/ \E k \in Polls : PushHistory(k)
  \/ \E k \in Polls : TrimHistory(k)
  \/ \E k \in Polls : PublishSymbol(k)
  \/ \E k \in Polls : PublishAll(k)
  \/ NewCycle(HistoryCycles)

SpecHistory == InitFanout /\ [][NextHistory]_vars

\* The collector from its construction to the end of stop(), with the store
\* and no client: any of the reachable exchanges may be down at start, a poll
\* may fail, a cycle may raise, and the shutdown may come at any moment.
InitService ==
  /\ active_connections = <<>>
  /\ symbol_subscriptions = <<>>
  /\ connection_metadata = <<>>
  /\ sock = [c \in Conns |-> "closed"]
  /\ pc = [c \in Conns |-> "done"]
  /\ pend = [c \in Conns |-> NoMsg]
  /\ todo = [c \in Conns |-> <<>>]
  /\ nrecv = 0
  /\ bc = IdleBroadcast
  /\ nbcast = 0
  /\ Constructed
  /\ reachable \in SUBSET Range(Exchanges)

NextService ==
  \/ LoadMarkets
  \/ collect_all_prices(ServiceCycles)
  \/ collect_all_market_data
  \/ \E l \in LoopNames : CycleRaises(l, ServiceCycles)
  \/ \E l \in LoopNames : CycleJoined(l)
  \/ \E k \in DOMAIN task : FetchDone(k, SteadyTicker)
  \/ \E k \in DOMAIN task : FetchFails(k)
  \/ \E k \in DOMAIN task : StoreDone(k)
  \/ \E k \in DOMAIN task : UpdateRead(k)
  \/ \E k \in DOMAIN task : SetPrice(k)
  \/ \E k \in DOMAIN task : PushHistory(k)
  \/ \E k \in DOMAIN task : TrimHistory(k)
  \/ \E k \in DOMAIN task : PublishSymbol(k)
  \/ \E k \in DOMAIN task : PublishAll(k)
  \/ \E k \in DOMAIN task : PollUnwinds(k)
  \/ \E k \in DOMAIN market_task : MarketFetchDone(k)
  \/ \E k \in DOMAIN market_task : MarketFetchFails(k)
  \/ \E k \in DOMAIN market_task : OrderBookDone(k)
  \/ \E k \in DOMAIN market_task : MarketStoreDone(k)
  \/ \E k \in DOMAIN market_task : MarketPollUnwinds(k)
  \/ \E l \in LoopNames : LoopUnwinds(l)
  \/ Shutdown
  \/ StopGathered
  \/ \E ok \in BOOLEAN : CloseExchange(ok)

SpecService == InitService /\ [][NextService]_vars

\* The two loops at work: start() has returned with every reachable exchange
\* initialised and the loop tasks created.  A poll of the first exchange is
\* answered with the same ticker or fails, a poll of another exchange fails,
\* and a cycle may raise.
InitStarted ==
  /\ active_connections = <<>>
  /\ symbol_subscriptions = <<>>
  /\ connection_metadata = <<>>
  /\ sock = [c \in Conns |-> "closed"]
  /\ pc = [c \in Conns |-> "done"]
  /\ pend = [c \in Conns |-> NoMsg]
  /\ todo = [c \in Conns |-> <<>>]
  /\ nrecv = 0
  /\ bc = IdleBroadcast
  /\ nbcast = 0
  /\ exchanges = Exchanges
  /\ running = TRUE
  /\ loops = [l \in LoopNames |-> "created"]
  /\ lifespan = [pc |-> "serving", i |-> 0]
  /\ market_task = <<>>
  /\ market_data = <<>>
  /\ closed = <<>>
  /\ reachable = Range(Exchanges)
  /\ exchange_data = <<>>
  /\ price = <<>>
  /\ price_history = [s \in PolledSymbols |-> <<>>]
  /\ published = <<>>
  /\ task = <<>>
  /\ age = <<>>
  /\ clock = 0
  /\ ncycle = 0
  /\ response = NoResponse

NextLoops ==
  \/ collect_all_prices(LoopCycles)
  \/ collect_all_market_data
  \/ \E l \in LoopNames : CycleRaises(l, LoopCycles)
  \/ \E l \in LoopNames : CycleJoined(l)
  \/ \E k \in DOMAIN task : k[1] = exchanges[1] /\ FetchDone(k, SteadyTicker)
  \/ \E k \in DOMAIN task : FetchFails(k)
  \/ \E k \in DOMAIN task : StoreDone(k)
  \/ \E k \in DOMAIN task : UpdateRead(k)
  \/ \E k \in DOMAIN task : SetPrice(k)
  \/ \E k \in DOMAIN task : PushHistory(k)
  \/ \E k \in DOMAIN task : TrimHistory(k)
  \/ \E k \in DOMAIN task : PublishSymbol(k)
  \/ \E k \in DOMAIN task : PublishAll(k)
  \/ \E k \in DOMAIN market_task : MarketFetchDone(k)
  \/ \E k \in DOMAIN market_task : MarketFetchFails(k)
  \/ \E k \in DOMAIN market_task : OrderBookDone(k)
  \/ \E k \in DOMAIN market_task : MarketStoreDone(k)

\* every pair a cycle can poll
AllPolls == {<<Exchanges[i], s>> : i \in 1..Len(Exchanges), s \in PolledSymbols}

\* the next step of a poll of the price cycle, whatever its outcome
PricePollStep(k) ==
  /\ k \in DOMAIN task
  /\ \/ k[1] = exchanges[1] /\ FetchDone(k, SteadyTicker)
     \/ FetchFails(k)
     \/ StoreDone(k)
     \/ UpdateRead(k)
     \/ SetPrice(k)
     \/ PushHistory(k)
     \/ TrimHistory(k)
     \/ PublishSymbol(k)
     \/ PublishAll(k)

\* the next step of a poll of the market data cycle
MarketPollStep(k) ==
  /\ k \in DOMAIN market_task
  /\ \/ MarketFetchDone(k)
     \/ MarketFetchFails(k)
     \/ OrderBookDone(k)
     \/ MarketStoreDone(k)

\* The event loop runs every coroutine whose await has resolved, and every
\* await of the service resolves: a sleep ends, a request to an exchange
\* returns or times out (exchange_request_timeout), a Redis command returns.
\* The scheduling of a cycle does not fail for ever.
FairLoops ==
  /\ \A l \in LoopNames : WF_vars(CycleJoined(l))
  /\ SF_vars(collect_all_prices(LoopCycles))
  /\ SF_vars(collect_all_market_data)
  /\ \A k \in AllPolls : WF_vars(PricePollStep(k))
  /\ \A k \in AllPolls : WF_vars(MarketPollStep(k))

SpecLoops == InitStarted /\ [][NextLoops]_vars /\ FairLoops

\* The price loop alone over two cycles: every poll is answered with the
\* same ticker or fails.
NextPrices ==
  \/ collect_all_prices(LoopCycles)
  \/ CycleRaises("_collect_prices_loop", LoopCycles)
  \/ CycleJoined("_collect_prices_loop")
  \/ \E k \in DOMAIN task : FetchDone(k, SteadyTicker)
  \/ \E k \in DOMAIN task : FetchFails(k)
  \/ \E k \in DOMAIN task : StoreDone(k)
  \/ \E k \in DOMAIN task : UpdateRead(k)
  \/ \E k \in DOMAIN task : SetPrice(k)
  \/ \E k \in DOMAIN task : PushHistory(k)
  \/ \E k \in DOMAIN task : TrimHistory(k)
  \/ \E k \in DOMAIN task : PublishSymbol(k)
  \/ \E k \in DOMAIN task : PublishAll(k)

SpecPrices == InitStarted /\ [][NextPrices]_vars

\* The same with a Redis that may fail to answer the SET of a quote.
NextStoreFails ==
  \/ collect_all_prices(LoopCycles)
  \/ CycleRaises("_collect_prices_loop", LoopCycles)
  \/ CycleJoined("_collect_prices_loop")
  \/ \E k \in DOMAIN task : FetchDone(k, SteadyTicker)
  \/ \E k \in DOMAIN task : FetchFails(k)
  \/ \E k \in DOMAIN task : StoreDone(k)
  \/ \E k \in DOMAIN task : StoreFails(k)
  \/ \E k \in DOMAIN task : UpdateRead(k)
  \/ \E k \in DOMAIN task : SetPrice(k)
  \/ \E k \in DOMAIN task : PushHistory(k)
  \/ \E k \in DOMAIN task : TrimHistory(k)
  \/ \E k \in DOMAIN task : PublishSymbol(k)
  \/ \E k \in DOMAIN task : PublishAll(k)

SpecStoreFails == InitStarted /\ [][NextStoreFails]_vars

\* One cycle of polls on two exchanges that quote different prices: each
\* ticker has its bid below its ask, and the bid of the second is above the
\* ask of the first.
QuotedTickers ==
  {[last |-> Num(100), bid |-> Num(100), ask |-> Num(101), baseVolume |-> Num(1)],
   [last |-> Num(102), bid |-> Num(102), ask |-> Num(103), baseVolume |-> Num(1)]}

NextQuotes ==
  \/ \E k \in Polls, ticker \in QuotedTickers : FetchDone(k, ticker)
  \/ \E k \in Polls : FetchFails(k)
  \/ \E k \in Polls : StoreDone(k)
  \/ \E k \in Polls : UpdateRead(k)
  \/ \E k \in Polls : SetPrice(k)
  \/ \E k \in Polls : PushHistory(k)
  \/ \E k \in Polls : TrimHistory(k)
  \/ \E k \in Polls : PublishSymbol(k)
  \/ \E k \in Polls : PublishAll(k)

SpecQuotes == InitFanout /\ [][NextQuotes]_vars

\* The endpoint on a store at rest: the history of a symbol holds any number
\* of snapshots it can hold, 100 at most after an LTRIM and 101 between an
\* LPUSH and its LTRIM, newest first, and a client asks with any limit from
\* zero to one above the cap.
StoredHistory(symbol, n) ==
  [i \in 1..n |-> [SamplePrice(symbol) EXCEPT !.timestamp = n + 1 - i]]

InitPriceHistory ==
  /\ active_connections = <<>>
  /\ symbol_subscriptions = <<>>
  /\ connection_metadata = <<>>
  /\ sock = [c \in Conns |-> "closed"]
  /\ pc = [c \in Conns |-> "done"]
  /\ pend = [c \in Conns |-> NoMsg]
  /\ todo = [c \in Conns |-> <<>>]
  /\ nrecv = 0
  /\ bc = IdleBroadcast
  /\ nbcast = 0
  /\ exchanges = Exchanges
  /\ running = TRUE
  /\ loops = [l \in LoopNames |-> "sleep"]
  /\ lifespan = [pc |-> "serving", i |-> 0]
  /\ market_task = <<>>
  /\ market_data = <<>>
  /\ closed = <<>>
  /\ reachable = Range(Exchanges)
  /\ exchange_data = <<>>
  /\ price = <<>>
  /\ \E n \in 0..(HistoryLimit + 1) :
       price_history = [s \in PolledSymbols |-> StoredHistory(s, n)]
  /\ published = <<>>
  /\ task = <<>>
  /\ age = <<>>
  /\ clock = 0
  /\ ncycle = 0
  /\ response = NoResponse

NextPriceHistory ==
  \E s \in PolledSymbols, limit \in 0..(HistoryLimit + 1) :
    GetPriceHistory(s, limit)

SpecPriceHistory == InitPriceHistory /\ [][NextPriceHistory]_vars

\* ================================================================ claims
Registered(c) == c \in DOMAIN connection_metadata

Subscribers(s) ==
  IF s \in DOMAIN symbol_subscriptions THEN symbol_subscriptions[s] ELSE {}

\* send_text calls the broadcast has made for websocket c
Attempts(c) == bc.delivered[c] + Occurrences(bc.disconnected, c)

Attempted == {c \in Conns : Attempts(c) > 0}

\* C1: every member of a symbol's subscriber set is a registered connection
\* (is in connection_metadata), so a disconnected connection is in no set.
\* The code breaks it: stated as the claim, TLC finds it violated.
C1_SubscribersAreRegistered ==
  \A s \in DOMAIN symbol_subscriptions :
    \A c \in symbol_subscriptions[s] : Registered(c)

\* C2: for every registered connection c and symbol s, s is in c's own
\* subscription set exactly when c is in the subscriber set of s, in every
\* state a coroutine can observe.
C2_IndicesAgree ==
  \A c \in DOMAIN connection_metadata : \A s \in Symbols :
    s \in connection_metadata[c].subscriptions <=> c \in Subscribers(s)

\* C2 witness: a registered connection holds a subscription while a broadcast
\* is suspended in a send and another endpoint has already disconnected
C2_Witness ==
  /\ bc.st = "send"
  /\ \E c \in DOMAIN connection_metadata, d \in Conns :
       /\ connection_metadata[c].subscriptions # {}
       /\ pc[d] = "done"

\* C3: once the endpoint of c has called disconnect(c) and returned, c is in
\* no subscriber set and get_connection_stats() counts nothing of c.
\* The code breaks it: stated as the claim, TLC finds it violated.
C3_DisconnectRemovesAll ==
  \A c \in Conns :
    pc[c] = "done" =>
      LET stats == get_connection_stats(Registry)
      IN  /\ \A s \in DOMAIN symbol_subscriptions : c \notin symbol_subscriptions[s]
          /\ \A s \in stats.subscribed_symbols :
               stats.connections_per_symbol[s] =
                  Cardinality(symbol_subscriptions[s] \ {c})
          /\ stats.total_subscriptions =
               SumSizes([s \in DOMAIN symbol_subscriptions |->
                           symbol_subscriptions[s] \ {c}],
                        DOMAIN symbol_subscriptions)
          /\ stats.total_connections =
               Cardinality(Range(active_connections) \ {c})

\* C4: a symbol broadcast calls send_text with one price_update message for
\* its symbol exactly once for each connection subscribed to the symbol when
\* it started, and never for a connection that was not subscribed.
C4_ExactlyOnePerSubscriber ==
  bc.kind = "symbol" =>
    /\ bc.message.type = "price_update"
    /\ bc.message.symbol \in Symbols
    /\ \A c \in Conns :
         /\ Attempts(c) <= (IF c \in bc.targets THEN 1 ELSE 0)
         /\ bc.st = "done" => Attempts(c) = (IF c \in bc.targets THEN 1 ELSE 0)

\* C4 witness: a finished symbol broadcast delivered to a subscriber and sent
\* nothing to a registered connection that is not subscribed
C4_Witness ==
  /\ bc.kind = "symbol" /\ bc.st = "done"
  /\ \E c, d \in DOMAIN connection_metadata :
       /\ bc.delivered[c] = 1 /\ c \in bc.targets
       /\ d \notin bc.targets /\ Attempts(d) = 0

\* C5: every consolidated price _update_best_price writes is handed to the
\* broadcaster.  Stated where nothing is left to run: once every poll of the
\* cycle has returned and no broadcast is in progress, a connection that was
\* subscribed to the symbol before the cycle, has asked for nothing since and
\* is still connected and registered has been sent a price_update carrying
\* the consolidated price that is in the store.
\* The code breaks it: _update_best_price stores and publishes to Redis, and
\* nothing calls broadcast_price_update.
C5_ConsolidatedPriceIsBroadcast ==
  \A k \in Polls :
    ( /\ \A q \in Polls : task[q].pc = "done"
      /\ task[k].best_price # Nothing
      /\ k[2] \in DOMAIN price
      /\ price[k[2]] = task[k].best_price[1]
      /\ bc.st # "send" ) =>
      \A c \in Conns :
        ( /\ c \in Subscribers(k[2])
          /\ Registered(c)
          /\ sock[c] = "connected"
          /\ pc[c] = "recv"
          /\ nrecv = 0 ) =>
          /\ bc.kind = "symbol"
          /\ bc.message.type = "price_update"
          /\ bc.message.symbol = k[2]
          /\ bc.message.data = price[k[2]]
          /\ bc.delivered[c] >= 1

\* C6: when a send of a broadcast failed, every other target that is still
\* registered has got the message, every connection whose send failed is
\* disconnected when the broadcast returns, and no connection whose send
\* succeeded has been disconnected by the broadcast.
\* The code breaks it for broadcast_to_all: TLC finds it violated.
C6_FailureIsIsolated ==
  (bc.st = "done" /\ bc.disconnected # <<>>) =>
    /\ \A c \in bc.targets :
         (c \notin Range(bc.disconnected) /\ Registered(c)) => bc.delivered[c] = 1
    /\ \A c \in Range(bc.disconnected) : ~Registered(c)
    /\ \A c \in Conns :
         (bc.delivered[c] > 0 /\ c \notin Range(bc.disconnected)
            /\ sock[c] = "connected") => Registered(c)

\* C7: a symbol broadcast sends to the set it copied at its start: whatever
\* other coroutines do to the registry meanwhile, the connections sent to and
\* those still to come are the copied set, and the broadcast ends having
\* called send_text once for each of them.
C7_SnapshotIteration ==
  bc.kind = "symbol" =>
    /\ bc.st = "send" =>
         /\ bc.websocket \notin Attempted \cup bc.subscribers
         /\ Attempted \cup bc.subscribers \cup {bc.websocket} = bc.targets
    /\ bc.st = "done" =>
         /\ Attempted = bc.targets
         /\ \A c \in bc.targets \ Range(bc.disconnected) : bc.delivered[c] = 1

\* C7 witness: a symbol broadcast has finished and delivered to one target
\* while another target left the symbol's subscriber set during the broadcast
\* by another coroutine's doing (its own send did not fail)
C7_Witness ==
  /\ bc.kind = "symbol" /\ bc.st = "done"
  /\ \E c, d \in bc.targets :
       /\ c # d
       /\ bc.delivered[c] = 1
       /\ d \notin Subscribers(bc.message.symbol)
       /\ d \notin Range(bc.disconnected)

\* C8: when broadcast_to_all returns, every connection that was registered
\* when it started and still is has been delivered the message exactly once.
\* The code breaks it: stated as the claim, TLC finds it violated.
C8_BroadcastAllReachesEveryone ==
  (bc.kind = "all" /\ bc.st = "done") =>
    \A c \in bc.targets :
      c \in Range(active_connections) => bc.delivered[c] = 1

\* the subscriber count get_connection_stats() reports for symbol s
SubscriberCount(r, s) ==
  LET stats == get_connection_stats(r)
  IN  IF s \in stats.subscribed_symbols THEN stats.connections_per_symbol[s] ELSE 0

\* c's endpoint takes a subscribe message for s off the socket and runs
\* subscribe_to_symbol(c, s) up to its confirmation
SubscribeStep(c, s) ==
  /\ pc[c] = "recv" /\ pc'[c] = "send"
  /\ pend'[c] = Msg("subscription_confirmed", s, None, 0)

\* C9: a subscribe of a connection that is already subscribed to the symbol
\* leaves both indices as they are, and a subscribe raises the symbol's
\* reported subscriber count by one if the connection was not subscribed and
\* by nothing if it was.
C9_SubscribeIdempotent ==
  [][\A c \in Conns, s \in Symbols :
       SubscribeStep(c, s) =>
         /\ c \in Subscribers(s) =>
              /\ symbol_subscriptions' = symbol_subscriptions
              /\ \A d \in DOMAIN connection_metadata :
                   /\ d \in DOMAIN connection_metadata'
                   /\ connection_metadata'[d].subscriptions =
                        connection_metadata[d].subscriptions
         /\ SubscriberCount(Registry', s) =
              SubscriberCount(Registry, s) + (IF c \in Subscribers(s) THEN 0 ELSE 1)
         /\ c \in symbol_subscriptions'[s]
         /\ s \in connection_metadata'[c].subscriptions]_vars

\* C9 witness: the only message taken off any socket was c's subscribe for s,
\* its confirmation is pending, and c had been delivered the welcome and the
\* confirmation of its endpoint's own subscription to s before
C9_Witness ==
  \E c \in DOMAIN connection_metadata, s \in Symbols :
    /\ pc[c] = "send"
    /\ pend[c] = Msg("subscription_confirmed", s, None, 0)
    /\ todo[c] = <<>>
    /\ nrecv = 1 /\ nbcast = 0
    /\ \A d \in Conns \ {c} : pc[d] = "accept"
    /\ connection_metadata[c].message_count = 2
    /\ connection_metadata[c].subscriptions = {s}

\* C10: disconnect(c) for a connection that is not registered (removed
\* before, or never accepted) changes none of active_connections,
\* symbol_subscriptions and connection_metadata.
C10_DisconnectIdempotent ==
  \A c \in Conns :
    (c \notin Range(active_connections) /\ ~Registered(c)) =>
      disconnect(Registry, c) = Registry

\* C10 witness: disconnect(c) has run twice, once in the clean-up of a
\* broadcast whose send to c failed and once when c's endpoint returned
C10_Witness ==
  \E c \in Conns :
    /\ pc[c] = "done"
    /\ bc.st = "done"
    /\ c \in Range(bc.disconnected)

\* C11: symbol_subscriptions never holds an empty set, get_connection_stats()
\* lists no symbol with a count of zero, and a symbol whose subscribers have
\* all unsubscribed or been disconnected has no entry left.
\* The code breaks the last part: a subscription made for a websocket that
\* connect() had already disconnected stays when its endpoint disconnects it.
C11_NoEmptyOrLeftoverEntry ==
  LET stats == get_connection_stats(Registry)
  IN  /\ \A s \in DOMAIN symbol_subscriptions : symbol_subscriptions[s] # {}
      /\ \A s \in stats.subscribed_symbols : stats.connections_per_symbol[s] >= 1
      /\ \A s \in stats.subscribed_symbols :
           \E c \in symbol_subscriptions[s] : pc[c] # "done"

\* the timestamps of the snapshots in the history of s, newest place first
Stamps(s) == [i \in 1..Len(price_history[s]) |-> price_history[s][i].timestamp]

\* no poll of the cycle is still running
CycleOver == \A k \in Polls : task[k].pc = "done"

\* C12: in every state of the store the history of a symbol holds at most
\* 100 snapshots, and a snapshot is never placed before a newer one.
\* The code breaks it: LPUSH and LTRIM are two awaits, and between them the
\* list of a full history holds 101 snapshots.
C12_HistoryBoundedNewestFirst ==
  \A s \in DOMAIN price_history :
    /\ Len(price_history[s]) <= HistoryLimit
    /\ \A i, j \in 1..Len(price_history[s]) :
         i < j => Stamps(s)[i] >= Stamps(s)[j]

\* C13: once the set_price calls made so far have all completed, N of them
\* since the empty history, the history holds min(N, 100) snapshots and its
\* first is the one of the consolidation made last.
\* The code breaks it: of two polls of one symbol the one that consolidated
\* first may push last.
C13_LengthAndNewest ==
  CycleOver =>
    \A s \in DOMAIN price_history :
      /\ Len(price_history[s]) =
           (IF clock < HistoryLimit THEN clock ELSE HistoryLimit)
      /\ clock > 0 => Stamps(s)[1] = clock

\* the snapshots of the set_price calls for s that have not pushed yet
NotPushed(s) ==
  {task[k].best_price[1].timestamp :
     k \in {q \in Polls : q[2] = s /\ task[q].pc \in {"set", "lpush"}}}

\* C14: as long as no more than 100 snapshots have been made, the history
\* of a symbol holds the snapshot of every set_price call that has pushed,
\* each once, however the calls of concurrent polls interleave.
C14_NoSnapshotLost ==
  \A s \in DOMAIN price_history :
    clock <= HistoryLimit =>
      /\ Range(Stamps(s)) = (1..clock) \ NotPushed(s)
      /\ Len(price_history[s]) = Cardinality(Range(Stamps(s)))
      /\ \A k \in Polls :
           ( /\ k[2] = s
             /\ task[k].best_price # Nothing
             /\ task[k].pc \in {"ltrim", "publish_symbol", "publish_all", "done"} )
             => task[k].best_price[1] \in Range(price_history[s])

\* C14 witness: two polls of one symbol have both completed set_price, their
\* calls overlapped (the snapshot made first was pushed last), and the
\* history holds both
C14_Witness ==
  \E k, q \in Polls :
    /\ k # q /\ k[2] = q[2]
    /\ task[k].pc = "done" /\ task[q].pc = "done"
    /\ task[k].best_price # Nothing /\ task[q].best_price # Nothing
    /\ price_history[k[2]] = <<task[k].best_price[1], task[q].best_price[1]>>
    /\ task[k].best_price[1].timestamp < task[q].best_price[1].timestamp

\* the Redis key of the quote of poll q, and of the price of symbol s
QuoteKey(q) == <<"exchange", q[1], q[2]>>

PriceKey(s) == <<"price", s>>

Contributing(k) == Range(task[k].exchange_prices)

\* C16: the consolidated price a poll has made carries the greatest bid and
\* the smallest ask of the quotes that contributed, and their difference as
\* the spread.
C16_BestBidAsk ==
  \A k \in Polls :
    task[k].best_price # Nothing =>
      LET best_price == task[k].best_price[1]
      IN  /\ \E quote \in Contributing(k) : quote.bid[1] = best_price.best_bid
          /\ \A quote \in Contributing(k) : quote.bid[1] <= best_price.best_bid
          /\ \E quote \in Contributing(k) : quote.ask[1] = best_price.best_ask
          /\ \A quote \in Contributing(k) : quote.ask[1] >= best_price.best_ask
          /\ best_price.spread = best_price.best_ask - best_price.best_bid

\* C16 witness: quotes with bid/ask (100,101) and (99,102) contributed, in
\* this order, and the price has best_bid 100, best_ask 101 and spread 1
C16_Witness ==
  \E k \in Polls :
    /\ task[k].best_price # Nothing
    /\ Len(task[k].exchange_prices) = 2
    /\ task[k].exchange_prices[1].bid = Num(100)
    /\ task[k].exchange_prices[1].ask = Num(101)
    /\ task[k].exchange_prices[2].bid = Num(99)
    /\ task[k].exchange_prices[2].ask = Num(102)
    /\ task[k].best_price[1].best_bid = 100
    /\ task[k].best_price[1].best_ask = 101
    /\ task[k].best_price[1].spread = 1

\* the sum of f over the indices in S
RECURSIVE SumOver(_, _)
SumOver(f, S) ==
  IF S = {} THEN 0
  ELSE LET j == CHOOSE x \in S : TRUE IN f[j] + SumOver(f, S \ {j})

\* C17: every read of the loop takes the quote the store holds for that
\* exchange at that moment and leaves out an exchange that has none, and the
\* price made of the quotes read has their mean last price (sum over count),
\* the sum of their volumes, and names and counts exactly their exchanges.
C17_OverExactlyTheStoredQuotes ==
  /\ [](\A k \in Polls :
          task[k].best_price # Nothing =>
            LET best_price == task[k].best_price[1]
                quotes == task[k].exchange_prices
                n == Len(quotes)
            IN  /\ best_price.price.den = n
                /\ best_price.price.num =
                     SumOver([j \in 1..n |-> quotes[j].price[1]], 1..n)
                /\ best_price.volume_24h =
                     SumOver([j \in 1..n |-> quotes[j].volume[1]], 1..n)
                /\ best_price.exchange_count = n
                /\ best_price.exchanges = [j \in 1..n |-> quotes[j].exchange])
  /\ [][\A k \in Polls :
          (task[k].pc = "read" /\ task'[k] # task[k]) =>
            LET held == <<Exchanges[task[k].i], k[2]>>
            IN  task'[k].exchange_prices =
                  IF held \in DOMAIN exchange_data
                  THEN Append(task[k].exchange_prices, exchange_data[held])
                  ELSE task[k].exchange_prices]_vars

\* C17 witness: the poll of the first exchange consolidated after the poll
\* of the second had stored its quote and consolidated, found that quote
\* expired, and made its price of its own quote alone
C17_Witness ==
  \E s \in PolledSymbols :
    LET k == <<Exchanges[1], s>>
        q == <<Exchanges[2], s>>
    IN  /\ task[k].best_price # Nothing
        /\ task[q].best_price # Nothing
        /\ task[q].best_price[1].timestamp < task[k].best_price[1].timestamp
        /\ task[k].best_price[1].exchanges = <<Exchanges[1]>>
        /\ task[k].best_price[1].exchange_count = 1
        /\ task[k].best_price[1].price.den = 1

\* C18: a run of _update_best_price that found a quote in the store ends
\* with a consolidated price made and written.
\* The code breaks it: a quote without a bid or an ask raises a TypeError in
\* the comparison, and the run ends without a price.
C18_PriceWheneverAQuote ==
  \A k \in Polls :
    (task[k].pc = "done" /\ task[k].exchange_prices # <<>>) =>
      task[k].best_price # Nothing

\* a quote with all the numbers a consolidation takes from it
Complete(quote) ==
  /\ quote.bid # NoNum
  /\ quote.ask # NoNum
  /\ quote.price # NoNum
  /\ quote.volume # NoNum

\* C19: a run of _update_best_price that read a complete quote of one
\* exchange ends with a consolidated price, whatever the quotes of the other
\* exchanges were.
\* The code breaks it: the TypeError of one quote ends the run.
C19_OneBadQuoteDoesNotAbort ==
  \A k \in Polls :
    (task[k].pc = "done" /\ \E quote \in Contributing(k) : Complete(quote)) =>
      task[k].best_price # Nothing

\* C20: a run of _update_best_price that found no quote in the store ends
\* there: it makes no price, and the price key, the history and the channels
\* are as they were; only a run that read a quote goes on to write.
C20_NothingWithoutQuotes ==
  /\ [][\A k \in Polls :
          ( /\ task[k].pc = "read"
            /\ task'[k].pc # "read"
            /\ task'[k].exchange_prices = <<>> ) =>
            /\ task'[k].pc = "done"
            /\ task'[k].best_price = Nothing
            /\ price' = price
            /\ price_history' = price_history
            /\ published' = published]_vars
  /\ [](\A k \in Polls :
          task[k].pc \in {"set", "lpush", "ltrim", "publish_symbol", "publish_all"}
            => task[k].exchange_prices # <<>>)

\* C20 witness: a poll stored its quote, the quote expired before the loop
\* read it, no exchange held another, and the run ended with the store, the
\* history and the channels empty
C20_Witness ==
  \E k \in Polls :
    /\ task[k].pc = "done"
    /\ task[k].price_data # Nothing
    /\ task[k].i = Len(Exchanges)
    /\ task[k].exchange_prices = <<>>
    /\ price = <<>>
    /\ price_history[k[2]] = <<>>
    /\ published = <<>>

Capped(l) == l = "_collect_prices_loop" /\ ncycle >= LoopCycles

\* C22: a loop whose cycle raised is not over: while the collector is running
\* no loop task has ended; a loop in its backoff sleep starts another cycle;
\* and so every pair is polled again and again by both loops (by the price
\* loop until the iterations of the run are used up).
C22_LoopsSelfHealing ==
  /\ [](running => \A l \in DOMAIN loops : loops[l] # "ended")
  /\ \A l \in LoopNames :
       [](loops[l] = "backoff" => <>(loops[l] = "gather" \/ Capped(l)))
  /\ \A k \in AllPolls :
       []<>(k \in DOMAIN market_task /\ market_task[k] = "fetch")
  /\ \A k \in AllPolls :
       []<>(\/ Capped("_collect_prices_loop")
            \/ k \in DOMAIN task /\ task[k].pc = "fetch")

\* C22 witness: the first cycle of both loops raised, and both loops are in
\* their backoff sleep with the collector running
C22_Witness ==
  /\ running
  /\ ncycle = 1
  /\ \A l \in LoopNames : loops[l] = "backoff"

\* every poll of both cycles is over
AllPollsOver ==
  /\ PollsOver("_collect_prices_loop")
  /\ PollsOver("_collect_market_data_loop")

\* what the polls write and where they stand
PollState == <<task, market_task, exchange_data, price, price_history,
               published, market_data>>

\* C23: stop() cancels both loop tasks, and through gather every poll that
\* is not over; it calls the first close() only when both loops and all polls
\* are over; from then on no poll takes a step or writes to the store; and
\* when stop() has returned, close() was called once on every initialised
\* exchange, in order, whether or not a close() raised.
C23_StopWaitsThenCloses ==
  /\ [][(lifespan.pc \in {"serving", "raised"} /\ lifespan'.pc # lifespan.pc) =>
          /\ ~running'
          /\ \A l \in DOMAIN loops' :
               loops'[l] \in {"cancelled", "gather_cancelled", "ended"}
          /\ \A k \in DOMAIN task' :
               task'[k].pc \in {"cancelled", "done"}
          /\ \A k \in DOMAIN market_task' :
               market_task'[k] \in {"cancelled", "order_book_cancelled", "done"}]_vars
  /\ [](lifespan.pc \in {"close", "stopped"} =>
          /\ \A l \in DOMAIN loops : loops[l] = "ended"
          /\ AllPollsOver)
  /\ [][(lifespan.pc \in {"close", "stopped"} \/ closed # <<>>) =>
          PollState' = PollState]_vars
  /\ [](lifespan.pc = "stopped" =>
          /\ Len(closed) = Len(exchanges)
          /\ \A j \in 1..Len(closed) : closed[j].exchange = exchanges[j])

\* C23 witness: stop() has returned after a cycle of each loop was under
\* way; the first close() raised and the second exchange was closed all the
\* same; a market snapshot and a quote had been written before
C23_Witness ==
  /\ lifespan.pc = "stopped"
  /\ Len(closed) = 2
  /\ ~closed[1].ok
  /\ closed[2].ok
  /\ market_data # <<>>
  /\ exchange_data # <<>>
  /\ \A l \in LoopNames : loops[l] = "ended"

\* C24: the consolidation a poll triggers reads, for the poll's own exchange
\* and symbol, a quote that is not older than the quote the poll fetched.
\* The code breaks it: set_exchange_data swallows the error of a SET that
\* failed, and the consolidation reads the quote of the cycle before.
C24_AtLeastAsFresh ==
  [][\A k \in DOMAIN task :
       ( /\ task[k].pc = "read"
         /\ exchanges[task[k].i] = k[1]
         /\ k \in DOMAIN task'
         /\ Len(task'[k].exchange_prices) > Len(task[k].exchange_prices) ) =>
         LET read == task'[k].exchange_prices[Len(task'[k].exchange_prices)]
         IN  read.timestamp >= task[k].price_data[1].timestamp]_vars

\* the exchanges start() found usable
Initialised == Range(exchanges)

\* C25: start() raises exactly when no exchange initialises, and then the
\* collector never runs: running stays false and no loop task and no poll is
\* ever created.  When an exchange initialises, start() returns with running
\* set, both loop tasks created and exactly the exchanges that answered in
\* the active set; no poll is made of another exchange, no quote of another
\* is stored, and no consolidation asks for or reads one.
C25_StartNeedsAnExchange ==
  /\ lifespan.pc = "raised" =>
       /\ reachable = {}
       /\ exchanges = <<>>
  /\ reachable = {} =>
       /\ lifespan.pc # "serving"
       /\ ~running
       /\ loops = <<>>
       /\ task = <<>>
       /\ market_task = <<>>
  /\ (reachable # {} /\ lifespan.pc # "load_markets") =>
       /\ lifespan.pc # "raised"
       /\ Initialised = reachable
       /\ DOMAIN loops = LoopNames
  /\ lifespan.pc = "serving" => running
  /\ Initialised \subseteq reachable
  /\ \A k \in DOMAIN task \cup DOMAIN market_task \cup DOMAIN exchange_data
                \cup DOMAIN market_data :
       k[1] \in reachable
  /\ \A k \in DOMAIN task :
       /\ task[k].pc = "read" => exchanges[task[k].i] \in reachable
       /\ \A j \in 1..Len(task[k].exchange_prices) :
            task[k].exchange_prices[j].exchange \in reachable

\* C25 witness: only the last configured exchange answered; start() returned,
\* and a poll of that exchange consolidated a price of its quote alone
C25_Witness ==
  /\ reachable = {Exchanges[2]}
  /\ exchanges = <<Exchanges[2]>>
  /\ running
  /\ \E k \in DOMAIN task :
       /\ task[k].best_price # Nothing
       /\ task[k].best_price[1].exchanges = <<Exchanges[2]>>

\* the connections whose endpoint waits for a message the client can send
Listening == {c \in Conns : pc[c] = "recv" /\ sock[c] = "connected"}

\* the subscription set the metadata keeps for c
SubscriptionsOf(c) ==
  IF c \in DOMAIN connection_metadata
  THEN connection_metadata[c].subscriptions ELSE {}

IndicesUnchanged ==
  /\ symbol_subscriptions' = symbol_subscriptions
  /\ DOMAIN connection_metadata' = DOMAIN connection_metadata
  /\ \A c \in DOMAIN connection_metadata :
       connection_metadata'[c].subscriptions = connection_metadata[c].subscriptions

\* C26: a subscribe or unsubscribe without a symbol is answered with an
\* error and leaves both indices as they were; with a symbol it subscribes
\* or unsubscribes the connection in both indices and is answered with
\* subscription_confirmed or unsubscription_confirmed for that symbol.
\* The code breaks it: a symbol that is not hashable raises a TypeError
\* inside subscribe_to_symbol or unsubscribe_from_symbol, which returns
\* False, and nothing is sent.
C26_SymbolOrError ==
  \A c \in Listening, m \in Inbound :
    (m.json = "object" /\ m.type \in {"subscribe", "unsubscribe"}) =>
      LET h == handle_message(Registry, c, m)
      IN  IF m.symbol = None
          THEN /\ h.out.type = "error"
               /\ h.reg = Registry
          ELSE IF m.type = "subscribe"
          THEN /\ h.out.type = "subscription_confirmed"
               /\ h.out.symbol = m.symbol
               /\ m.symbol \in DOMAIN h.reg.symbol_subscriptions
               /\ c \in h.reg.symbol_subscriptions[m.symbol]
               /\ m.symbol \in h.reg.connection_metadata[c].subscriptions
          ELSE /\ h.out.type = "unsubscription_confirmed"
               /\ h.out.symbol = m.symbol
               /\ \/ m.symbol \notin DOMAIN h.reg.symbol_subscriptions
                  \/ c \notin h.reg.symbol_subscriptions[m.symbol]
               /\ m.symbol \notin h.reg.connection_metadata[c].subscriptions

\* the payloads handle_message cannot read, and the types it does not know
Malformed == {m \in Inbound : m.json # "object" \/ m.type = "unknown"}

\* C27: a payload that is not JSON, JSON that is not an object, or a message
\* of an unknown or missing type is answered with an error and nothing else:
\* the registry is as it was, the socket stays open, and once the error is
\* sent the connection is registered with its subscriptions and the endpoint
\* waits for the next message.
C27_MalformedIsAnswered ==
  /\ [](\A c \in Listening, m \in Malformed :
          LET h == handle_message(Registry, c, m)
          IN  /\ h.out.type = "error"
              /\ h.reg = Registry)
  /\ [][\A c \in Conns :
          (pc[c] = "recv" /\ pc'[c] = "send" /\ pend'[c].type = "error") =>
            /\ Registry' = Registry
            /\ sock' = sock]_vars
  /\ [][\A c \in Conns :
          (pc[c] = "send" /\ pend[c].type = "error" /\ SendOk(c)
             /\ pc'[c] # pc[c]) =>
            /\ pc'[c] = "recv"
            /\ c \in Range(active_connections')
            /\ c \in DOMAIN connection_metadata'
            /\ IndicesUnchanged
            /\ sock' = sock]_vars

\* C27 witness: the error for a payload that is not JSON is on its way to a
\* connection that is open, registered and subscribed, while another
\* connection is subscribed too
C27_Witness ==
  \E c \in Conns : \E d \in Conns \ {c} :
    /\ pc[c] = "send"
    /\ pend[c].type = "error"
    /\ pend[c].data = "Invalid JSON format"
    /\ sock[c] = "connected"
    /\ c \in Range(active_connections)
    /\ SubscriptionsOf(c) # {}
    /\ SubscriptionsOf(d) # {}

\* C28: ping is answered with pong and get_subscriptions with the symbol set
\* of the requesting connection, and handling either leaves the list of
\* connections, the subscriber sets and every connection's subscription set
\* as they were, also once the answer is sent.
C28_PingAndListHaveNoEffect ==
  /\ [](\A c \in Listening, m \in Inbound :
          (m.json = "object" /\ m.type \in {"ping", "get_subscriptions"}) =>
            LET h == handle_message(Registry, c, m)
            IN  /\ h.reg = Registry
                /\ m.type = "ping" => h.out.type = "pong"
                /\ m.type = "get_subscriptions" =>
                     /\ h.out.type = "subscriptions"
                     /\ h.out.data = SubscriptionsOf(c))
  /\ [][\A c \in Conns :
          (pc[c] = "recv" /\ pc'[c] = "send"
             /\ pend'[c].type \in {"pong", "subscriptions"}) =>
            /\ Registry' = Registry
            /\ pend'[c].type = "subscriptions" =>
                 pend'[c].data = SubscriptionsOf(c)]_vars
  /\ [][\A c \in Conns :
          (pc[c] = "send" /\ pend[c].type \in {"pong", "subscriptions"}
             /\ SendOk(c) /\ pc'[c] # pc[c]) =>
            /\ active_connections' = active_connections
            /\ IndicesUnchanged]_vars

\* C28 witness: the answer to get_subscriptions is on its way to a
\* connection subscribed to one symbol while another connection is
\* subscribed to another symbol, and it lists the one symbol
C28_Witness ==
  \E c \in Conns : \E d \in Conns \ {c} :
    /\ pc[c] = "send"
    /\ pend[c].type = "subscriptions"
    /\ pend[c].data = SubscriptionsOf(c)
    /\ Cardinality(SubscriptionsOf(c)) = 1
    /\ SubscriptionsOf(d) # {}
    /\ SubscriptionsOf(d) # SubscriptionsOf(c)

\* C29: handling one inbound message of connection c sends one message, to
\* c, and nothing to any other connection: the step that takes the message
\* leaves the endpoint of c in the send of its answer and every other
\* endpoint where it was.
\* The code breaks it: a subscribe or unsubscribe whose symbol is not
\* hashable is handled without any message sent.
C29_OneAnswerToTheRequester ==
  [][nrecv' = nrecv + 1 =>
       \E c \in Conns :
         /\ pc[c] = "recv"
         /\ pc'[c] = "send"
         /\ pend'[c] # NoMsg
         /\ \A d \in Conns \ {c} : pc'[d] = pc[d] /\ pend'[d] = pend[d]
         /\ bc' = bc]_vars

\* C30: in every state the statistics agree with the registry: the number of
\* connections is the number of registered connections, the count of a symbol
\* is the size of its subscriber set, the symbols listed are those with a
\* subscriber, and the total is the sum of the counts.
C30_StatsAgree ==
  LET stats == get_connection_stats(Registry)
  IN  /\ stats.total_connections = Cardinality(DOMAIN connection_metadata)
      /\ stats.subscribed_symbols = {s \in Symbols : Subscribers(s) # {}}
      /\ DOMAIN stats.connections_per_symbol = stats.subscribed_symbols
      /\ \A s \in stats.subscribed_symbols :
           stats.connections_per_symbol[s] = Cardinality(Subscribers(s))
      /\ stats.total_subscriptions =
           SumOver(stats.connections_per_symbol, stats.subscribed_symbols)

\* C30 witness: one registered connection holds two subscriptions, so the
\* total of the subscriptions exceeds the number of connections
C30_Witness ==
  LET stats == get_connection_stats(Registry)
  IN  /\ stats.total_connections = 1
      /\ stats.total_subscriptions = 2
      /\ Cardinality(DOMAIN connection_metadata) = 1

\* the PUBLISH calls made so far on `channel` with the consolidated price d
Publications(channel, d) ==
  Cardinality({i \in 1..Len(published) :
                 published[i].channel = channel /\ published[i].data = d})

\* the runs of _update_best_price that made the consolidated price d and are
\* suspended in one of the awaits `at`
RunsAt(d, at) ==
  {k \in DOMAIN task : task[k].pc \in at /\ task[k].best_price = Some(d)}

\* the consolidated prices written under price:{s} so far: the history holds
\* them once their LPUSH is done
Written(s) ==
  Range(price_history[s])
    \cup {task[k].best_price[1] :
            k \in {q \in DOMAIN task : q[2] = s /\ task[q].pc = "lpush"}}

C32_BackoffIsShorter ==
  \A l \in DOMAIN loops :
    loops[l] = "backoff" => SleepSeconds(l, "backoff") < SleepSeconds(l, "sleep")

\* the welcome message of connect(): lines 37-42
Welcome == Msg("connection_established", None, default_symbols, 0)

\* the symbols the endpoint of c subscribes it to in the segment in which
\* connect() returns
FirstAutoSubscription(c) == IF todo[c] = <<>> THEN {} ELSE {Head(todo[c])}

\* C33: connect(c) whose accept() returns registers c once, with an empty
\* subscription set and a message count of zero, and sends c the welcome
\* message that lists the default symbols; no other step sends a welcome.
\* When the welcome is sent, connect() returns with c registered once and
\* the message counted, and c holds no subscription but the one its endpoint
\* makes on return.  When accept() or the send of the welcome raises, c is
\* in neither active_connections nor connection_metadata.
C33_ConnectRegistersAndWelcomes ==
  /\ [](\A c \in Conns :
          (pc[c] = "send" /\ pend[c] = Welcome /\ Registered(c)) =>
            /\ connection_metadata[c].subscriptions = {}
            /\ Occurrences(active_connections, c) = 1)
  /\ [][\A c \in Conns :
          /\ (pc[c] = "accept" /\ pc'[c] # "accept") =>
               IF sock[c] = "connecting"
               THEN /\ Occurrences(active_connections', c) = 1
                    /\ c \in DOMAIN connection_metadata'
                    /\ connection_metadata'[c] =
                         [subscriptions |-> {}, message_count |-> 0]
                    /\ pend'[c] = Welcome
                    /\ pc'[c] = "send"
               ELSE /\ c \notin Range(active_connections')
                    /\ c \notin DOMAIN connection_metadata'
                    /\ pend'[c] # Welcome
          /\ (pc[c] = "send" /\ pend[c] = Welcome /\ pend'[c] # Welcome) =>
               IF SendOk(c)
               THEN /\ Occurrences(active_connections', c) = 1
                    /\ c \in DOMAIN connection_metadata'
                    /\ connection_metadata'[c].message_count =
                         connection_metadata[c].message_count + 1
                    /\ connection_metadata'[c].subscriptions =
                         FirstAutoSubscription(c)
               ELSE /\ c \notin Range(active_connections')
                    /\ c \notin DOMAIN connection_metadata'
          /\ (pend'[c] = Welcome /\ pend[c] # Welcome) => pc[c] = "accept"
          /\ pc[c] # "accept" => pc'[c] # "accept"]_vars

\* C33 witness: connect(c1) has returned with c1 registered, the welcome its
\* only message and no subscription, and c2, whose client went away, is past
\* its connect() and unregistered
C33_Witness ==
  /\ pc["c1"] = "recv"
  /\ active_connections = <<"c1">>
  /\ DOMAIN connection_metadata = {"c1"}
  /\ connection_metadata["c1"] = [subscriptions |-> {}, message_count |-> 1]
  /\ pc["c2"] # "accept"
  /\ sock["c2"] = "closed"

\* the polls of the loop l that have been created and are not over
InFlight(l) ==
  IF l = "_collect_prices_loop"
  THEN {k \in DOMAIN task : task[k].pc # "done"}
  ELSE {k \in DOMAIN market_task : market_task[k] # "done"}

\* the polls of the loop l at their first await, fetch_ticker
Issued(l) ==
  IF l = "_collect_prices_loop"
  THEN {k \in DOMAIN task : task[k].pc = "fetch"}
  ELSE {k \in DOMAIN market_task : market_task[k] = "fetch"}

\* C34: the segment of a loop that starts a cycle creates a poll for every
\* initialised exchange and polled symbol, all of them at fetch_ticker before
\* any has run, and finds no poll of the cycle before in flight; the loop
\* leaves the gather of the cycle only for its sleep and only when every
\* poll has returned, and once they all have it does leave.
C34_CycleIsJoined ==
  /\ [][\A l \in LoopNames :
          /\ (~InGather(l) /\ InGather(l)') =>
               /\ InFlight(l) = {}
               /\ Issued(l)' = Polls
               /\ InFlight(l)' = Polls
          /\ (InGather(l) /\ ~InGather(l)') =>
               /\ InFlight(l) = {}
               /\ loops'[l] = "sleep"
          /\ InGather(l) => InFlight(l)' \subseteq InFlight(l)]_vars
  /\ \A l \in LoopNames : (InGather(l) /\ InFlight(l) = {}) ~> ~InGather(l)

\* C34 witness: the second cycle of the price loop has just created its
\* polls, after a cycle that wrote to the history, and the market data loop
\* sleeps after a cycle of its own
C34_Witness ==
  /\ ncycle = 2
  /\ InGather("_collect_prices_loop")
  /\ Issued("_collect_prices_loop") = Polls
  /\ \E s \in PolledSymbols : price_history[s] # <<>>
  /\ loops["_collect_market_data_loop"] = "sleep"
  /\ market_data # <<>>

\* the quotes of s the polls of the current cycle have written and the store
\* still holds
QuotesOfCycle(s) ==
  {q \in DOMAIN exchange_data :
     q[2] = s /\ exchange_data[q].timestamp = ncycle}

\* C35: once every poll of a price cycle has returned, the consolidated price
\* the store holds for a symbol counts every exchange whose quote for the
\* symbol was written in the cycle and is still there.
\* The code breaks it: of two runs of _update_best_price for one symbol, the
\* one that read the store first, and found one quote, may SET its price
\* after the one that found both.
C35_FinalPriceReflectsAllQuotes ==
  (task # <<>> /\ InFlight("_collect_prices_loop") = {}) =>
    \A s \in PolledSymbols :
      \A q \in QuotesOfCycle(s) :
        /\ s \in DOMAIN price
        /\ q[1] \in Range(price[s].exchanges)

\* the set_price calls for s that have not returned
InSetPrice(s) ==
  {k \in DOMAIN task : k[2] = s /\ task[k].pc \in {"set", "lpush", "ltrim"}}

\* C36: while no set_price call for a symbol is in progress and its price key
\* has not expired, the price under the key is the first entry of the
\* symbol's history.
\* The code breaks it: SET and LPUSH are two awaits, and of two concurrent
\* calls the one whose SET came first may push last.
C36_PriceIsNewestHistory ==
  \A s \in DOMAIN price :
    InSetPrice(s) = {} =>
      /\ price_history[s] # <<>>
      /\ price[s] = price_history[s][1]

\* c was subscribed to s when the broadcast in progress copied the
\* subscribers, has unsubscribed since, and has been sent the confirmation:
\* it is still registered, so no disconnect took it out of the set, and it
\* waits in receive_text again
UnsubscribedDuringBroadcast(c, s) ==
  /\ bc.kind = "symbol"
  /\ bc.message.symbol = s
  /\ c \in bc.targets
  /\ Registered(c)
  /\ c \notin Subscribers(s)
  /\ pc[c] = "recv"

\* C37: a connection that has been sent unsubscription_confirmed for a
\* symbol is not sent a price_update for that symbol afterwards: a broadcast
\* that was in progress when it unsubscribed does not go on to call
\* send_text for it.
\* The code breaks it: the broadcast sends to the copy of the subscriber set
\* it made when it started.
C37_NoUpdateAfterUnsubscribe ==
  [][\A c \in Conns :
       ( /\ bc.st = "send"
         /\ bc.websocket # c
         /\ bc'.st = "send"
         /\ bc'.websocket = c ) =>
         ~UnsubscribedDuringBroadcast(c, bc.message.symbol)]_vars

\* C38: in every state the websockets in active_connections are the keys of
\* connection_metadata, and none is in the list twice.
C38_ActiveIffMetadata ==
  /\ Range(active_connections) = DOMAIN connection_metadata
  /\ \A c \in Conns : Occurrences(active_connections, c) <= 1

\* C38 witness: both websockets were registered, a broadcast to all found
\* the send to c1 failing and disconnected it, and c2 is the one connection
\* in the list and in the metadata
C38_Witness ==
  /\ bc.st = "done"
  /\ bc.kind = "all"
  /\ bc.targets = {"c1", "c2"}
  /\ bc.disconnected = <<"c1">>
  /\ active_connections = <<"c2">>
  /\ DOMAIN connection_metadata = {"c2"}

\* C39: a consolidated price that _update_best_price has made of quotes that
\* each have their bid at or below their ask has its best_bid at or below
\* its best_ask, and a spread that is not negative.
\* The code breaks it: best_bid and best_ask are taken over the exchanges
\* separately, and the highest bid of one exchange may lie above the lowest
\* ask of another.
C39_SpreadNonNegative ==
  \A k \in DOMAIN task :
    ( /\ task[k].best_price # Nothing
      /\ \A quote \in Contributing(k) :
           /\ quote.bid # NoNum
           /\ quote.ask # NoNum
           /\ quote.bid[1] <= quote.ask[1] ) =>
      /\ task[k].best_price[1].best_bid <= task[k].best_price[1].best_ask
      /\ task[k].best_price[1].spread >= 0

\* the n first entries of the list, or all of it when it holds fewer
Newest(list, n) == SubSeq(list, 1, IF n < Len(list) THEN n ELSE Len(list))

\* C40: the answer to a request with a limit from 0 to 100 holds at most
\* limit entries: the limit newest of the history, newest first.
\* The code breaks it for limit 0: LRANGE 0 -1 returns the whole list.
C40_AtMostLimitNewest ==
  (response # NoResponse /\ response.limit <= HistoryLimit) =>
    /\ response.count <= response.limit
    /\ Len(response.history) <= response.limit
    /\ response.history = Newest(price_history[response.symbol], response.limit)

====
